---- MODULE Spec2Model ----
(***************************************************************************)
(* Model of the transcript analysis engine of noScribe_Excel-Visualisation: *)
(*   parse_to_excel.py   parse_transcript (turn assembly, feature          *)
(*                       extraction) and main (the analysis run)           *)
(*   visualize_data.py   create_visualizations, section 5 (the turn-taking *)
(*                       transition matrix)                                *)
(* Text is modelled as a sequence of one-character strings, so that        *)
(* str.strip, re.match, str.split and str.count are computed character by  *)
(* character as Python computes them.                                      *)
(***************************************************************************)
EXTENDS Integers, Sequences, FiniteSets, TLC

VARIABLES
    \* parse_transcript (parse_to_excel.py:52-122)
    lines,            \* f.readlines()
    idx,              \* position of the for loop over lines (1-based)
    start_parsing,
    current_speaker,
    current_text,
    data,             \* list of row dicts
    ridx,             \* position of the feature loop over data
    pc,
    \* main (parse_to_excel.py:397-503)
    args,             \* the parsed command line
    df,               \* the DataFrame: its columns and its rows
    fks,
    ttrs,
    mtlds,
    tidx,             \* position of the loop over df["Text"]
    workbook,         \* sheet titles of the output file, in order
    stats,            \* the per-speaker summary of apply_excel_styling
    tex,              \* the per-speaker summary of export_latex_tables
    raised,           \* the exception that ended the run ("": none)
    \* create_visualizations (visualize_data.py:8-253)
    speaker_list,     \* df['Speaker'].tolist()
    speakers,         \* list(df['Speaker'].unique())
    charts,
    transitions,
    mi,               \* position of the pairwise walk (1-based)
    matrix_data,
    \* PipelineApp, the rename screen (pipeline_gui.py:1015-1115)
    transcript_file,  \* the transcript file on disk, line by line
    speaker_entries,  \* the entry widgets: pairs of detected tag and entry text
    applied,          \* the file and the entries Apply Renaming last worked on
    \* PipelineApp, the screens that start workers (pipeline_gui.py:721-934,
    \* 1195-1243, 1429-1539)
    transcribe_btn,   \* state and command of the Start button of Transcribe
    excel_btn,        \* state of the Start button of Excel
    pipeline_btn,     \* state of the Start button of Full Pipeline
    batch_files,      \* self._batch_files (<<>>: None)
    workers,          \* the worker threads started so far, with their locals
    callbacks,        \* callbacks queued with self.after(0, ...), oldest first
    launched,         \* the subprocesses started so far, with their exit codes
    history,          \* self.history
    last_transcript_path,
    last_excel_path,
    status            \* the status bar: its text and the numbers in it

parseVars == <<lines, idx, start_parsing, current_speaker, current_text, data, ridx>>

mainVars == <<args, df, fks, ttrs, mtlds, tidx, workbook, stats, tex, raised>>

vizVars == <<speaker_list, speakers, charts, transitions, mi, matrix_data>>

renameVars == <<transcript_file, speaker_entries, applied>>

appVars == <<transcribe_btn, excel_btn, pipeline_btn, batch_files, workers, callbacks,
             launched, history, last_transcript_path, last_excel_path, status>>

guiVars == <<renameVars, appVars>>

vars == <<lines, idx, start_parsing, current_speaker, current_text, data, ridx, pc,
          args, df, fks, ttrs, mtlds, tidx, workbook, stats, tex, raised,
          speaker_list, speakers, charts, transitions, mi, matrix_data,
          transcript_file, speaker_entries, applied,
          transcribe_btn, excel_btn, pipeline_btn, batch_files, workers, callbacks,
          launched, history, last_transcript_path, last_excel_path, status>>

----------------------------------------------------------------------------
(* Bounds of the model *)

MaxLines == 4

\* Lines a transcript file is made of (without the line terminator).
LineChoices ==
    { <<>>,                                   \* blank line
      <<"h">>,                                \* header / free text
      <<"(", ".", ")">>,                      \* short pause marker
      <<"(", ".", ".", ")">>,                 \* long pause marker
      <<"S", "0", "0", ":", " ", "a">>,       \* tag line with text
      <<"S", "0", "1", ":">>,                 \* tag line, empty remainder
      <<" ", "S", "0", "0", ":", "b", " ">>,  \* tag line inside whitespace
      <<"u", "h", " ", "b">> }                \* two-word continuation

FileContents == UNION { [1..n -> LineChoices] : n \in 0..MaxLines }

----------------------------------------------------------------------------
(* Python string primitives *)

None == <<>>

Whitespace == {" ", "\t", "\n"}

Digits == {"0", "1", "2", "3", "4", "5", "6", "7", "8", "9"}

\* f.readlines(): every line keeps its terminator
ReadLines(content) == [i \in DOMAIN content |-> content[i] \o <<"\n">>]

RECURSIVE LStrip(_)
LStrip(s) == IF s # <<>> /\ Head(s) \in Whitespace THEN LStrip(Tail(s)) ELSE s

RECURSIVE RStrip(_)
RStrip(s) ==
    IF s # <<>> /\ s[Len(s)] \in Whitespace
    THEN RStrip(SubSeq(s, 1, Len(s) - 1))
    ELSE s

\* str.strip()
Strip(s) == RStrip(LStrip(s))

\* the part of s a regex ".*" consumes: up to the first newline
RECURSIVE DotStar(_)
DotStar(s) ==
    IF s = <<>> \/ Head(s) = "\n" THEN <<>> ELSE <<Head(s)>> \o DotStar(Tail(s))

\* the pattern r"^(S\d{2}):\s*(.+)", which wants text after the colon
SpeakerPatternRequiresText(line) ==
    /\ Len(line) >= 5
    /\ line[1] = "S" /\ line[2] \in Digits /\ line[3] \in Digits /\ line[4] = ":"
    /\ DotStar(LStrip(SubSeq(line, 5, Len(line)))) # <<>>

\* speaker_pattern = re.compile(r"^(S\d{2}):\s*(.*)"), .match(line) is not None
speaker_pattern(line) ==
    /\ Len(line) >= 4
    /\ line[1] = "S"
    /\ line[2] \in Digits
    /\ line[3] \in Digits
    /\ line[4] = ":"

\* match.group(1)
MatchGroup1(line) == SubSeq(line, 1, 3)

\* match.group(2)
MatchGroup2(line) == DotStar(LStrip(SubSeq(line, 5, Len(line))))

----------------------------------------------------------------------------
(* parse_transcript: turn assembly *)

\* an append that drops a turn whose trimmed text is empty
EmitTurnUnlessEmpty(d, speaker, text) ==
    IF Strip(text) = <<>>
    THEN d
    ELSE Append(d, [Speaker |-> speaker, Text |-> Strip(text)])

\* data.append({"Speaker": current_speaker, "Text": current_text.strip()})
EmitTurn(d, speaker, text) ==
    Append(d, [Speaker |-> speaker, Text |-> Strip(text)])

\* current_text += line, without the separating space
AppendGlued(text, line) == text \o line

\* current_text += " " + line
AppendContinuation(text, line) == text \o <<" ">> \o line

\* line == "(..)" or line == "(.)"
IsBootstrapMarker(line) ==
    line = <<"(", ".", ".", ")">> \/ line = <<"(", ".", ")">>

\* a continuation append without the guard
AnyLineContinues(speaker) == TRUE

\* "if current_speaker is not None" guarding the continuation append
ContinuationApplies(speaker) == speaker # None

\* the "if match:" branch with a tag equal to the open speaker extending the
\* open turn instead of closing it
StartTurnMerging(line) ==
    IF current_speaker = MatchGroup1(line)
    THEN /\ current_text' = AppendContinuation(current_text, MatchGroup2(line))
         /\ UNCHANGED <<current_speaker, data>>
    ELSE /\ data' = IF current_speaker # None
                    THEN EmitTurn(data, current_speaker, current_text)
                    ELSE data
         /\ current_speaker' = MatchGroup1(line)
         /\ current_text' = MatchGroup2(line)

\* "if match:" branch of the loop body
StartTurn(line) ==
    /\ data' = IF current_speaker # None
               THEN EmitTurn(data, current_speaker, current_text)
               ELSE data
    /\ current_speaker' = MatchGroup1(line)
    /\ current_text' = MatchGroup2(line)

\* the "else:" branch with pause-marker lines left out of the open turn
ContinueTurnSkippingMarkers(line) ==
    /\ current_text' = IF ContinuationApplies(current_speaker)
                          /\ ~IsBootstrapMarker(line)
                          /\ line # <<"(", ".", ".", ".", ")">>
                       THEN AppendContinuation(current_text, line)
                       ELSE current_text
    /\ UNCHANGED <<current_speaker, data>>

\* "else:" branch of the loop body
ContinueTurn(line) ==
    /\ current_text' = IF ContinuationApplies(current_speaker)
                       THEN AppendContinuation(current_text, line)
                       ELSE current_text
    /\ UNCHANGED <<current_speaker, data>>

\* a blank line that ends the open turn
BlankClosesTurn ==
    /\ data' = IF current_speaker # None
               THEN EmitTurn(data, current_speaker, current_text)
               ELSE data
    /\ current_speaker' = None
    /\ current_text' = <<>>
    /\ UNCHANGED start_parsing

\* "if not line: continue"
SkipBlankLine == UNCHANGED <<start_parsing, current_speaker, current_text, data>>

\* One iteration of "for line in lines"
ParseLine ==
    /\ pc = "parse"
    /\ idx <= Len(lines)
    /\ idx' = idx + 1
    /\ LET line == Strip(lines[idx])
           started == start_parsing \/ IsBootstrapMarker(line)
       IN  IF line = <<>>
           THEN SkipBlankLine
           ELSE IF ~started /\ ~speaker_pattern(line)
           THEN UNCHANGED <<start_parsing, current_speaker, current_text, data>>
           ELSE /\ start_parsing' = TRUE
                /\ IF speaker_pattern(line)
                   THEN StartTurn(line)
                   ELSE ContinueTurn(line)
    /\ UNCHANGED <<lines, ridx, pc>>
    /\ UNCHANGED mainVars
    /\ UNCHANGED vizVars
    /\ UNCHANGED guiVars

\* End of the loop, with the last turn appended whether or not one is open
ParseEndUnchecked ==
    /\ pc = "parse"
    /\ idx > Len(lines)
    /\ data' = EmitTurn(data, current_speaker, current_text)
    /\ pc' = "extract"
    /\ UNCHANGED <<lines, idx, start_parsing, current_speaker, current_text, ridx>>
    /\ UNCHANGED mainVars
    /\ UNCHANGED vizVars
    /\ UNCHANGED guiVars

\* End of the loop: "Append the last turn"
ParseEnd ==
    /\ pc = "parse"
    /\ idx > Len(lines)
    /\ data' = IF current_speaker # None
               THEN EmitTurn(data, current_speaker, current_text)
               ELSE data
    /\ pc' = "extract"
    /\ UNCHANGED <<lines, idx, start_parsing, current_speaker, current_text, ridx>>
    /\ UNCHANGED mainVars
    /\ UNCHANGED vizVars
    /\ UNCHANGED guiVars

----------------------------------------------------------------------------
(* parse_transcript: feature extraction *)

UpperLetters ==
    <<"A", "B", "C", "D", "E", "F", "G", "H", "I", "J", "K", "L", "M",
      "N", "O", "P", "Q", "R", "S", "T", "U", "V", "W", "X", "Y", "Z">>

LowerLetters ==
    <<"a", "b", "c", "d", "e", "f", "g", "h", "i", "j", "k", "l", "m",
      "n", "o", "p", "q", "r", "s", "t", "u", "v", "w", "x", "y", "z">>

Range(f) == {f[i] : i \in DOMAIN f}

\* a case-sensitive match
LowerIdentity(c) == c

\* case folding of re.IGNORECASE
Lower(c) ==
    IF c \in Range(UpperLetters)
    THEN LowerLetters[CHOOSE i \in DOMAIN UpperLetters : UpperLetters[i] = c]
    ELSE c

LowerStr(s) == [i \in DOMAIN s |-> Lower(s[i])]

\* the characters regex \w matches
WordChars == Range(UpperLetters) \cup Range(LowerLetters) \cup Digits \cup {"_"}

\* len(text.split(" ")): one more than the number of spaces
SplitCountOnSpaces(text) ==
    Cardinality({i \in DOMAIN text : text[i] = " "}) + 1

\* len(text.split()): the number of maximal runs of non-whitespace
SplitCount(text) ==
    Cardinality({i \in DOMAIN text :
                    /\ text[i] \notin Whitespace
                    /\ (i = 1 \/ text[i - 1] \in Whitespace)})

\* sub occurs in s at position p
OccursAt(s, sub, p) ==
    /\ p >= 1
    /\ p + Len(sub) - 1 <= Len(s)
    /\ SubSeq(s, p, p + Len(sub) - 1) = sub

\* str.count(sub): non-overlapping occurrences, scanning from the left
RECURSIVE StrCountFrom(_, _, _)
StrCountFrom(s, sub, p) ==
    IF p + Len(sub) - 1 > Len(s) THEN 0
    ELSE IF OccursAt(s, sub, p) THEN 1 + StrCountFrom(s, sub, p + Len(sub))
    ELSE StrCountFrom(s, sub, p + 1)

StrCount(s, sub) == StrCountFrom(s, sub, 1)

\* s.find(sub, p), 1-based; 0 when there is none
FindFrom(s, sub, p) ==
    LET hits == {q \in p..Len(s) : OccursAt(s, sub, q)}
    IN  IF hits = {} THEN 0 ELSE CHOOSE q \in hits : \A r \in hits : q <= r

Slashes == <<"/", "/">>

\* len(re.findall(r"//(.*?)//", text)); "." does not match a newline
RECURSIVE OverlapCountFrom(_, _)
OverlapCountFrom(s, p) ==
    LET open == FindFrom(s, Slashes, p)
        close == IF open = 0 THEN 0 ELSE FindFrom(s, Slashes, open + 2)
    IN  IF open = 0 \/ close = 0 THEN 0
        ELSE IF \E q \in (open + 2)..(close - 1) : s[q] = "\n"
        THEN OverlapCountFrom(s, open + 1)
        ELSE 1 + OverlapCountFrom(s, close + 2)

\* a count of the delimiters themselves, matched or not
OverlapCountAnySlashes(s) == StrCount(s, Slashes)

OverlapCount(s) == OverlapCountFrom(s, 1)

\* the alternatives of disfluency_pattern
Fillers ==
    << <<"u", "h">>, <<"u", "m">>, <<"h", "m", "m">>,
       <<"y", "e", "a", "h">>, <<"l", "i", "k", "e">> >>

\* (uh|um|hmm|yeah|like) without the word boundaries
FillerAtAnywhere(s, p) ==
    LET ok == {k \in DOMAIN Fillers : OccursAt(LowerStr(s), Fillers[k], p)}
    IN  IF ok = {} THEN 0
        ELSE Len(Fillers[CHOOSE k \in ok : \A j \in ok : k <= j])

\* \b(uh|um|hmm|yeah|like)\b matches at p, case-insensitively; the length of
\* the match, 0 when there is none
FillerAt(s, p) ==
    LET ok == {k \in DOMAIN Fillers :
                  /\ OccursAt(LowerStr(s), Fillers[k], p)
                  /\ (p = 1 \/ s[p - 1] \notin WordChars)
                  /\ (p + Len(Fillers[k]) > Len(s)
                        \/ s[p + Len(Fillers[k])] \notin WordChars)}
    IN  IF ok = {} THEN 0
        ELSE Len(Fillers[CHOOSE k \in ok : \A j \in ok : k <= j])

\* len(disfluency_pattern.findall(text))
RECURSIVE DisfluencyCountFrom(_, _)
DisfluencyCountFrom(s, p) ==
    IF p > Len(s) THEN 0
    ELSE IF FillerAt(s, p) > 0
    THEN 1 + DisfluencyCountFrom(s, p + FillerAt(s, p))
    ELSE DisfluencyCountFrom(s, p + 1)

DisfluencyCount(s) == DisfluencyCountFrom(s, 1)

\* short_pauses = text.count("(.)")
ShortPauseCount(text) == StrCount(text, <<"(", ".", ")">>)

\* a long pause count that leaves "(...)" out
LongPauseCountDoubleOnly(text) == StrCount(text, <<"(", ".", ".", ")">>)

\* long_pauses = text.count("(..)") + text.count("(...)")
LongPauseCount(text) ==
    StrCount(text, <<"(", ".", ".", ")">>)
      + StrCount(text, <<"(", ".", ".", ".", ")">>)

\* the body of "for row in data": the keys added to one row
Features(row) ==
    LET text == row["Text"]
    IN  [k \in {"Speaker", "Text", "Word Count", "Contains Overlap?",
                "Short Pauses", "Long Pauses", "Disfluencies (uh/um/yeah...)"} |->
            CASE k = "Speaker" -> row["Speaker"]
              [] k = "Text" -> text
              [] k = "Word Count" -> SplitCount(text)
              [] k = "Contains Overlap?" ->
                    IF OverlapCount(text) > 0 THEN "Yes" ELSE "No"
              [] k = "Short Pauses" -> ShortPauseCount(text)
              [] k = "Long Pauses" -> LongPauseCount(text)
              [] k = "Disfluencies (uh/um/yeah...)" -> DisfluencyCount(text)]

\* One iteration of "for row in data"
ExtractRow ==
    /\ pc = "extract"
    /\ ridx <= Len(data)
    /\ data' = [data EXCEPT ![ridx] = Features(data[ridx])]
    /\ ridx' = ridx + 1
    /\ UNCHANGED <<lines, idx, start_parsing, current_speaker, current_text, pc>>
    /\ UNCHANGED mainVars
    /\ UNCHANGED vizVars
    /\ UNCHANGED guiVars

\* "return data"
ParseReturn ==
    /\ pc = "extract"
    /\ ridx > Len(data)
    /\ pc' = "returned"
    /\ UNCHANGED <<lines, idx, start_parsing, current_speaker, current_text, data, ridx>>
    /\ UNCHANGED mainVars
    /\ UNCHANGED vizVars
    /\ UNCHANGED guiVars

----------------------------------------------------------------------------
(* Specification of parse_transcript over every file of at most MaxLines lines *)

\* the locals of parse_transcript before its loop
ParseEntry ==
    /\ idx = 1
    /\ start_parsing = FALSE
    /\ current_speaker = None
    /\ current_text = <<>>
    /\ data = <<>>
    /\ ridx = 1
    /\ pc = "parse"

\* main has not run
MainIdle ==
    /\ args = [lexical |-> FALSE, questions |-> FALSE, summary |-> TRUE, latex |-> FALSE]
    /\ df = [columns |-> <<>>, rows |-> <<>>]
    /\ fks = <<>>
    /\ ttrs = <<>>
    /\ mtlds = <<>>
    /\ tidx = 1
    /\ workbook = <<>>
    /\ stats = <<>>
    /\ tex = <<>>
    /\ raised = ""

\* create_visualizations has not run
VizIdle ==
    /\ speaker_list = <<>>
    /\ speakers = <<>>
    /\ charts = {}
    /\ transitions = <<>>
    /\ mi = 1
    /\ matrix_data = <<>>

\* the rename screen has not been opened
RenameIdle ==
    /\ transcript_file = <<>>
    /\ speaker_entries = <<>>
    /\ applied = <<>>

\* the application right after PipelineApp.__init__, no worker started
AppIdle ==
    /\ transcribe_btn = [state |-> "normal", command |-> "do_transcribe"]
    /\ excel_btn = "normal"
    /\ pipeline_btn = "normal"
    /\ batch_files = <<>>
    /\ workers = <<>>
    /\ callbacks = <<>>
    /\ launched = <<>>
    /\ history = <<>>
    /\ last_transcript_path = None
    /\ last_excel_path = None
    /\ status = <<"">>

GuiIdle == RenameIdle /\ AppIdle

Init ==
    /\ lines \in {ReadLines(c) : c \in FileContents}
    /\ ParseEntry
    /\ MainIdle
    /\ VizIdle
    /\ GuiIdle

Next == ParseLine \/ ParseEnd \/ ExtractRow \/ ParseReturn

Spec == Init /\ [][Next]_vars

----------------------------------------------------------------------------
(* The input as the claims describe it *)

\* tag S, two digits, a colon, optional text
IsTurnStartLine(l) ==
    /\ Len(l) >= 4
    /\ l[1] = "S"
    /\ l[2] \in {"0", "1", "2", "3", "4", "5", "6", "7", "8", "9"}
    /\ l[3] \in {"0", "1", "2", "3", "4", "5", "6", "7", "8", "9"}
    /\ l[4] = ":"

Trimmed(i) == Strip(lines[i])

\* positions of the turn-start lines of the input
TagIndexes == {i \in DOMAIN lines : IsTurnStartLine(Trimmed(i))}

NumTags == Cardinality(TagIndexes)

\* position of the k-th turn-start line
NthTagIndex(k) ==
    CHOOSE i \in TagIndexes : Cardinality({j \in TagIndexes : j <= i}) = k

\* position of the first turn-start line after line i (Len(lines) + 1: none)
NextTagAfter(i) ==
    LET later == {j \in TagIndexes : j > i}
    IN  IF later = {} THEN Len(lines) + 1
        ELSE CHOOSE j \in later : \A r \in later : j <= r

FirstTag == NextTagAfter(0)

TagOf(i) == SubSeq(Trimmed(i), 1, 3)

\* what follows the colon of turn-start line i
Remainder(i) == SubSeq(Trimmed(i), 5, Len(Trimmed(i)))

\* the non-blank lines between turn-start line i and the next one
ContIndexes(i) == {j \in (i + 1)..(NextTagAfter(i) - 1) : Trimmed(j) # <<>>}

IsPauseLine(l) == l = <<"(", ".", ")">> \/ l = <<"(", ".", ".", ")">>

\* acc joined, one space each, with the non-blank lines j .. stop-1
RECURSIVE JoinLines(_, _, _)
JoinLines(acc, j, stop) ==
    IF j >= stop THEN acc
    ELSE IF Trimmed(j) = <<>> THEN JoinLines(acc, j + 1, stop)
    ELSE JoinLines(acc \o <<" ">> \o Trimmed(j), j + 1, stop)

\* the text the turn opened by turn-start line i is to have
ExpectedText(i) == Strip(JoinLines(Remainder(i), i + 1, NextTagAfter(i)))

LoopDone == pc \in {"extract", "returned"}

----------------------------------------------------------------------------
(* Turn assembly: claims C1 - C6 *)

\* C1: the number of emitted turns equals the number of input lines that,
\* trimmed, match the turn-start pattern; while the loop runs, the emitted
\* turns plus the open one count the turn-start lines read so far, whether or
\* not a bootstrap marker or header text came first.
C1_TurnCount ==
    /\ LoopDone => Len(data) = NumTags
    /\ pc = "parse" =>
          Len(data) + (IF current_speaker # None THEN 1 ELSE 0)
             = Cardinality({i \in TagIndexes : i < idx})

C1_Witness ==
    /\ pc = "returned"
    /\ Len(data) >= 2
    /\ \E i \in 1..(FirstTag - 1) : IsPauseLine(Trimmed(i))
    /\ \E i \in 1..(FirstTag - 1) : Trimmed(i) = <<"h">>

C2_Final ==
    LoopDone =>
        /\ Len(data) = NumTags
        /\ \A k \in 1..NumTags : data[k]["Speaker"] = TagOf(NthTagIndex(k))

C2_Step ==
    /\ \A k \in DOMAIN data :
          /\ k \in DOMAIN data'
          /\ data'[k]["Speaker"] = data[k]["Speaker"]
          /\ data'[k]["Text"] = data[k]["Text"]
    /\ (pc = "parse" /\ idx \in TagIndexes) =>
          /\ data' = IF current_speaker # None
                     THEN Append(data, [Speaker |-> current_speaker,
                                        Text |-> Strip(current_text)])
                     ELSE data
          /\ current_speaker' = TagOf(idx)
    /\ (pc = "parse" /\ idx > Len(lines) /\ current_speaker # None) =>
          data' = Append(data, [Speaker |-> current_speaker,
                                Text |-> Strip(current_text)])

\* C2: the speakers of the emitted turns, in output order, are the tags of the
\* turn-start lines in input order; a turn-start line appends the open turn (if
\* any) and opens a new one, also for an equal tag; the end of input appends the
\* open turn; an appended turn keeps its speaker and text.
C2_SpeakerOrder == [](C2_Final) /\ [][C2_Step]_vars

C2_Witness ==
    /\ pc = "returned"
    /\ Len(data) >= 3
    /\ \E k \in 1..(Len(data) - 1) : data[k]["Speaker"] = data[k + 1]["Speaker"]
    /\ \E k \in 1..(Len(data) - 1) : data[k]["Speaker"] # data[k + 1]["Speaker"]

\* C3: the text of the k-th emitted turn is the trimmed single-space join of
\* the remainder of the k-th turn-start line and the non-blank lines up to the
\* next turn-start line (or the end of input), in input order.
C3_TurnText ==
    LoopDone =>
        \A k \in 1..NumTags :
            /\ k \in DOMAIN data
            /\ data[k]["Text"] = ExpectedText(NthTagIndex(k))

C3_Witness ==
    /\ pc = "returned"
    /\ \E i \in TagIndexes :
          /\ Remainder(i) # <<>>
          /\ Cardinality(ContIndexes(i)) >= 2
          /\ NextTagAfter(i) <= Len(lines)

\* C4: up to the first turn-start line nothing is accumulated and no turn is
\* open: header lines are ignored, a "(.)" or "(..)" line only sets
\* start_parsing, and the non-tag lines after it are ignored too; the first
\* turn starts from the remainder of its own line alone.
C4_PreambleIgnored ==
    /\ (pc = "parse" /\ idx <= FirstTag) =>
          /\ data = <<>>
          /\ current_speaker = None
          /\ current_text = <<>>
          /\ start_parsing <=> \E j \in 1..(idx - 1) : IsPauseLine(Trimmed(j))
    /\ (pc = "parse" /\ FirstTag <= Len(lines) /\ idx = FirstTag + 1) =>
          /\ data = <<>>
          /\ current_speaker = TagOf(FirstTag)
          /\ current_text = LStrip(Remainder(FirstTag))
    /\ (LoopDone /\ TagIndexes # {}) =>
          data[1]["Text"] = ExpectedText(FirstTag)

C4_Witness ==
    /\ pc = "returned"
    /\ Len(data) >= 1
    /\ \E j \in 1..(FirstTag - 1) :
          /\ IsPauseLine(Trimmed(j))
          /\ \E m \in (j + 1)..(FirstTag - 1) :
                Trimmed(m) # <<>> /\ ~IsPauseLine(Trimmed(m))

\* turn-start lines with an empty remainder and no continuation line
EmptyTurnIndexes ==
    {i \in TagIndexes : Remainder(i) = <<>> /\ ContIndexes(i) = {}}

\* C5: a turn-start line with an empty remainder and no continuation line is
\* emitted as a turn with empty text and word count 0.
C5_EmptyTurnEmitted ==
    pc = "returned" =>
        \A k \in 1..NumTags :
            NthTagIndex(k) \in EmptyTurnIndexes =>
                /\ k \in DOMAIN data
                /\ data[k]["Speaker"] = TagOf(NthTagIndex(k))
                /\ data[k]["Text"] = <<>>
                /\ data[k]["Word Count"] = 0

C5_Witness ==
    /\ pc = "returned"
    /\ \E i \in EmptyTurnIndexes : NextTagAfter(i) <= Len(lines)
    /\ \E i \in EmptyTurnIndexes : NextTagAfter(i) > Len(lines)

\* C6: with no turn-start line in the input no turn is ever opened or emitted,
\* and parse_transcript runs to its return with an empty list.
C6_NoTagsEmpty ==
    TagIndexes = {} =>
        /\ data = <<>>
        /\ current_speaker = None
        /\ pc = "returned" \/ ENABLED Next

C6_Witness ==
    /\ pc = "returned"
    /\ TagIndexes = {}
    /\ data = <<>>
    /\ \E i \in DOMAIN lines : Trimmed(i) = <<"h">>
    /\ \E i \in DOMAIN lines : IsPauseLine(Trimmed(i))
    /\ \E i \in DOMAIN lines : Trimmed(i) = <<>>

----------------------------------------------------------------------------
(* main of parse_to_excel.py: the analysis run *)

MaxMainLines == 3

\* Lines of the transcripts the analysis run is explored on
MainLineChoices ==
    { <<"h">>,
      <<"(", ".", ".", ")">>,
      <<"S", "0", "0", ":", " ", "a", "?">>,
      <<"S", "0", "1", ":">>,
      <<"u", "h", " ", "(", ".", ")", " ", "/", "/", "b", "/", "/">> }

MainFileContents == UNION { [1..n -> MainLineChoices] : n \in 0..MaxMainLines }

\* argparse: the options of the run
ArgChoices ==
    [lexical : BOOLEAN, questions : BOOLEAN, summary : BOOLEAN, latex : BOOLEAN]

\* the keys of the rows parse_transcript returns, in insertion order
ParsedColumns ==
    <<"Speaker", "Text", "Word Count", "Contains Overlap?",
      "Short Pauses", "Long Pauses", "Disfluencies (uh/um/yeah...)">>

\* pd.DataFrame(data): no rows give a frame without columns
DataFrame(rows) ==
    [columns |-> IF rows = <<>> THEN <<>> ELSE ParsedColumns, rows |-> rows]

HasColumn(frame, c) == c \in Range(frame.columns)

\* df[c] = values, values a list as long as the frame
SetColumn(frame, c, values) ==
    [columns |-> IF HasColumn(frame, c) THEN frame.columns
                 ELSE Append(frame.columns, c),
     rows |-> [i \in DOMAIN frame.rows |->
                 [k \in DOMAIN frame.rows[i] \cup {c} |->
                     IF k = c THEN values[i] ELSE frame.rows[i][k]]]]

\* df[columns]
SelectColumns(frame, columns) ==
    [columns |-> columns,
     rows |-> [i \in DOMAIN frame.rows |->
                 [k \in Range(columns) |-> frame.rows[i][k]]]]

\* "data = parse_transcript(...)", "df = pd.DataFrame(data)"
MainDataFrame ==
    /\ pc = "returned"
    /\ df' = DataFrame(data)
    /\ pc' = IF args.lexical THEN "lexical" ELSE "questions"
    /\ UNCHANGED parseVars
    /\ UNCHANGED vizVars
    /\ UNCHANGED guiVars
    /\ UNCHANGED <<args, fks, ttrs, mtlds, tidx, workbook, stats, tex, raised>>

\* "for text in df["Text"]": the column lookup that opens the lexical pass
LexicalBegin ==
    /\ pc = "lexical"
    /\ IF HasColumn(df, "Text")
       THEN pc' = "lexloop" /\ raised' = raised
       ELSE pc' = "crashed" /\ raised' = "KeyError"
    /\ UNCHANGED parseVars
    /\ UNCHANGED vizVars
    /\ UNCHANGED guiVars
    /\ UNCHANGED <<args, df, fks, ttrs, mtlds, tidx, workbook, stats, tex>>

\* One iteration of the lexical loop. textstat and lexicalrichness are
\* libraries: each call either returns the metric of this turn (written as the
\* turn's position) or raises. lex is "ok", "early" (LexicalRichness(...) or
\* lex.ttr raises) or "mtld" (lex.mtld raises after lex.ttr was appended).
LexicalTurn(fk_ok, lex) ==
    /\ pc = "lexloop"
    /\ tidx <= Len(df.rows)
    /\ fks' = Append(fks, IF fk_ok THEN tidx ELSE 0)
    /\ ttrs' = CASE lex = "ok" -> Append(ttrs, tidx)
                 [] lex = "early" -> Append(ttrs, 0)
                 [] lex = "mtld" -> Append(Append(ttrs, tidx), 0)
    /\ mtlds' = CASE lex = "ok" -> Append(mtlds, tidx)
                  [] lex = "early" -> Append(mtlds, 0)
                  [] lex = "mtld" -> Append(mtlds, 0)
    /\ tidx' = tidx + 1
    /\ UNCHANGED parseVars
    /\ UNCHANGED vizVars
    /\ UNCHANGED guiVars
    /\ UNCHANGED <<pc, args, df, workbook, stats, tex, raised>>

\* df["TTR"] = ttrs; df["MTLD"] = mtlds; df["Flesch-Kincaid"] = fks
LexicalAssign ==
    /\ pc = "lexloop"
    /\ tidx > Len(df.rows)
    /\ IF Len(ttrs) # Len(df.rows)
       THEN /\ raised' = "ValueError"
            /\ pc' = "crashed"
            /\ df' = df
       ELSE IF Len(mtlds) # Len(df.rows)
       THEN /\ raised' = "ValueError"
            /\ pc' = "crashed"
            /\ df' = SetColumn(df, "TTR", ttrs)
       ELSE IF Len(fks) # Len(df.rows)
       THEN /\ raised' = "ValueError"
            /\ pc' = "crashed"
            /\ df' = SetColumn(SetColumn(df, "TTR", ttrs), "MTLD", mtlds)
       ELSE /\ raised' = raised
            /\ pc' = "questions"
            /\ df' = SetColumn(SetColumn(SetColumn(df, "TTR", ttrs),
                                         "MTLD", mtlds), "Flesch-Kincaid", fks)
    /\ UNCHANGED parseVars
    /\ UNCHANGED vizVars
    /\ UNCHANGED guiVars
    /\ UNCHANGED <<args, fks, ttrs, mtlds, tidx, workbook, stats, tex>>

\* add_question_column: "Yes" if "?" in t else "No"
QuestionFlags(frame) ==
    [i \in DOMAIN frame.rows |->
        IF "?" \in Range(frame.rows[i]["Text"]) THEN "Yes" ELSE "No"]

\* "if args.questions: df = add_question_column(df)"
MainQuestions ==
    /\ pc = "questions"
    /\ IF ~args.questions
       THEN pc' = "select" /\ UNCHANGED <<df, raised>>
       ELSE IF HasColumn(df, "Text")
       THEN /\ df' = SetColumn(df, "Contains Question?", QuestionFlags(df))
            /\ pc' = "select"
            /\ raised' = raised
       ELSE /\ pc' = "crashed"
            /\ raised' = "KeyError"
            /\ df' = df
    /\ UNCHANGED parseVars
    /\ UNCHANGED vizVars
    /\ UNCHANGED guiVars
    /\ UNCHANGED <<args, fks, ttrs, mtlds, tidx, workbook, stats, tex>>

\* the list "columns" main builds from the options
SelectedColumns ==
    ParsedColumns
      \o (IF args.questions THEN <<"Contains Question?">> ELSE <<>>)
      \o (IF args.lexical THEN <<"TTR", "MTLD", "Flesch-Kincaid">> ELSE <<>>)

\* df = df[columns]: a label that is no column raises KeyError
MainSelect ==
    /\ pc = "select"
    /\ IF \A c \in Range(SelectedColumns) : HasColumn(df, c)
       THEN /\ df' = SelectColumns(df, SelectedColumns)
            /\ pc' = "export"
            /\ raised' = raised
       ELSE /\ pc' = "crashed"
            /\ raised' = "KeyError"
            /\ df' = df
    /\ UNCHANGED parseVars
    /\ UNCHANGED vizVars
    /\ UNCHANGED guiVars
    /\ UNCHANGED <<args, fks, ttrs, mtlds, tidx, workbook, stats, tex>>

\* df.to_excel(args.output_file, index=False, engine="openpyxl")
MainExport ==
    /\ pc = "export"
    /\ workbook' = <<"Sheet1">>
    /\ pc' = "styling"
    /\ UNCHANGED parseVars
    /\ UNCHANGED vizVars
    /\ UNCHANGED guiVars
    /\ UNCHANGED <<args, df, fks, ttrs, mtlds, tidx, stats, tex, raised>>

\* list(df["Speaker"].unique()): first appearance order
RECURSIVE Unique(_)
Unique(seq) ==
    IF seq = <<>> THEN <<>>
    ELSE LET init == Unique(SubSeq(seq, 1, Len(seq) - 1))
             last == seq[Len(seq)]
         IN  IF last \in Range(init) THEN init ELSE Append(init, last)

SpeakersOf(frame) == Unique([i \in DOMAIN frame.rows |-> frame.rows[i]["Speaker"]])

\* the whole frame in place of the speaker's rows
RowsOfAll(frame, s) == frame.rows

\* df[df["Speaker"] == s]
RowsOf(frame, s) == SelectSeq(frame.rows, LAMBDA r : r["Speaker"] = s)

\* speaker_df[c].sum()
RECURSIVE ColumnSum(_, _)
ColumnSum(rows, c) ==
    IF rows = <<>> THEN 0 ELSE rows[1][c] + ColumnSum(Tail(rows), c)

\* speaker_df[c].mean(), kept as numerator and denominator; the mean of no
\* rows is NaN, written <<0, 0>>
ColumnMean(rows, c) == <<ColumnSum(rows, c), Len(rows)>>

\* the mean without the guard on the number of rows
UnguardedMean(rows, c) == ColumnMean(rows, c)

\* "round(speaker_df[c].mean(), n) if len(speaker_df) > 0 else 0"
GuardedMean(rows, c) ==
    IF Len(rows) > 0 THEN ColumnMean(rows, c) ELSE <<0, 1>>

\* the keys both summaries compute for one speaker
BaseStats(frame, s) ==
    LET speaker_df == RowsOf(frame, s)
    IN  [Speaker |-> s,
         TotalTurns |-> Len(speaker_df),
         TotalWords |-> ColumnSum(speaker_df, "Word Count"),
         AvgWords |-> GuardedMean(speaker_df, "Word Count"),
         TotalOverlaps |->
             Len(SelectSeq(speaker_df, LAMBDA r : r["Contains Overlap?"] = "Yes")),
         TotalShortPauses |-> ColumnSum(speaker_df, "Short Pauses"),
         TotalLongPauses |-> ColumnSum(speaker_df, "Long Pauses"),
         TotalDisfluencies |->
             ColumnSum(speaker_df, "Disfluencies (uh/um/yeah...)")]

\* stats[s] of apply_excel_styling, with the lexical means "if compute_lexical"
SpeakerStats(frame, s) ==
    IF HasColumn(frame, "Flesch-Kincaid")
    THEN BaseStats(frame, s) @@
           [TTR |-> GuardedMean(RowsOf(frame, s), "TTR"),
            MTLD |-> GuardedMean(RowsOf(frame, s), "MTLD"),
            FleschKincaid |-> GuardedMean(RowsOf(frame, s), "Flesch-Kincaid")]
    ELSE BaseStats(frame, s)

\* stats[s] of export_latex_tables, with the question count when the frame
\* has the column
LatexStats(frame, s) ==
    IF HasColumn(frame, "Contains Question?")
    THEN BaseStats(frame, s) @@
           [Questions |->
              Len(SelectSeq(RowsOf(frame, s),
                            LAMBDA r : r["Contains Question?"] = "Yes"))]
    ELSE BaseStats(frame, s)

AllStats(frame) ==
    [i \in DOMAIN SpeakersOf(frame) |-> SpeakerStats(frame, SpeakersOf(frame)[i])]

AllLatexStats(frame) ==
    [i \in DOMAIN SpeakersOf(frame) |-> LatexStats(frame, SpeakersOf(frame)[i])]

\* apply_excel_styling: the data sheet is renamed and the results sheet is
\* created in front of it; args.summary is not read
MainStyling ==
    /\ pc = "styling"
    /\ workbook' = <<"Results Summary", "Transcript Data">>
    /\ stats' = AllStats(df)
    /\ pc' = "latex"
    /\ UNCHANGED parseVars
    /\ UNCHANGED vizVars
    /\ UNCHANGED guiVars
    /\ UNCHANGED <<args, df, fks, ttrs, mtlds, tidx, tex, raised>>

\* "if args.latex: export_latex_tables(df, ...)", then "Done!"
MainLatex ==
    /\ pc = "latex"
    /\ tex' = IF args.latex THEN AllLatexStats(df) ELSE tex
    /\ pc' = "done"
    /\ UNCHANGED parseVars
    /\ UNCHANGED vizVars
    /\ UNCHANGED guiVars
    /\ UNCHANGED <<args, df, fks, ttrs, mtlds, tidx, workbook, stats, raised>>

InitMain ==
    /\ lines \in {ReadLines(c) : c \in MainFileContents}
    /\ ParseEntry
    /\ args \in ArgChoices
    /\ df = [columns |-> <<>>, rows |-> <<>>]
    /\ fks = <<>>
    /\ ttrs = <<>>
    /\ mtlds = <<>>
    /\ tidx = 1
    /\ workbook = <<>>
    /\ stats = <<>>
    /\ tex = <<>>
    /\ raised = ""
    /\ VizIdle
    /\ GuiIdle

NextMain ==
    \/ ParseLine
    \/ ParseEnd
    \/ ExtractRow
    \/ ParseReturn
    \/ MainDataFrame
    \/ LexicalBegin
    \/ \E fk_ok \in BOOLEAN, lex \in {"ok", "early", "mtld"} : LexicalTurn(fk_ok, lex)
    \/ LexicalAssign
    \/ MainQuestions
    \/ MainSelect
    \/ MainExport
    \/ MainStyling
    \/ MainLatex

SpecMain == InitMain /\ [][NextMain]_vars

\* C7: on a transcript without turn-start lines the analysis run ends without
\* an exception, with zero turns and empty summaries.
C7_EmptyTranscriptRuns ==
    TagIndexes = {} =>
        /\ raised = ""
        /\ pc = "done" => (df.rows = <<>> /\ stats = <<>> /\ tex = <<>>)
        /\ pc = "done" \/ ENABLED NextMain

----------------------------------------------------------------------------
(* create_visualizations, section 5: the turn-taking transition matrix *)

MaxTurns == 6

\* values of the Speaker column of the "Transcript Data" sheet
SpeakerNames == { <<"S", "0", "0">>, <<"S", "0", "1">>, <<"S", "0", "2">> }

SpeakerLists == UNION { [1..n -> SpeakerNames] : n \in 0..MaxTurns }

\* the chart selections explored
ChartChoices == { {"matrix"}, {"timeline", "matrix"}, {"timeline"} }

\* a walk that counts same-speaker pairs too
CountsEveryPair(current, next_spk) == TRUE

\* "if current != next_spk": only actual speaker changes are counted
CountsPair(current, next_spk) == current # next_spk

\* the transposed cell, transitions[next_spk][current]
CountCellSwapped(current, next_spk) == <<next_spk, current>>

\* the cell "transitions[current][next_spk] += 1" increments
CountCell(current, next_spk) == <<current, next_spk>>

RECURSIVE SeqSum(_)
SeqSum(seq) == IF seq = <<>> THEN 0 ELSE seq[1] + SeqSum(Tail(seq))

\* the total of every row together
GrandTotal(s) ==
    SeqSum([i \in DOMAIN speakers |->
              SeqSum([j \in DOMAIN speakers |-> transitions[speakers[i]][speakers[j]]])])

\* row_total = sum(transitions[s].values())
RowTotal(s) == SeqSum([j \in DOMAIN speakers |-> transitions[s][speakers[j]]])

\* One row of matrix_data. A percentage is kept exact, as <<numerator,
\* denominator>> of "transitions[s][t] / row_total * 100"; the 0 of an all-zero
\* row is <<0, 1>>.
MatrixRow(s) ==
    IF RowTotal(s) > 0
    THEN [j \in DOMAIN speakers |-> <<transitions[s][speakers[j]] * 100, RowTotal(s)>>]
    ELSE [j \in DOMAIN speakers |-> <<0, 1>>]

\* the function up to the matrix section: the speakers of the sheet, and
\* "if "matrix" in charts and len(speakers) >= 2" with the zero matrix
VizStart ==
    /\ pc = "viz"
    /\ speakers' = Unique(speaker_list)
    /\ IF "matrix" \in charts /\ Len(Unique(speaker_list)) >= 2
       THEN /\ transitions' = [s \in Range(Unique(speaker_list)) |->
                                 [t \in Range(Unique(speaker_list)) |-> 0]]
            /\ pc' = "count"
       ELSE /\ transitions' = transitions
            /\ pc' = "viz_done"
    /\ UNCHANGED <<speaker_list, charts, mi, matrix_data>>
    /\ UNCHANGED parseVars
    /\ UNCHANGED mainVars
    /\ UNCHANGED guiVars

\* One iteration of "for i in range(len(speaker_list) - 1)"
CountStep ==
    /\ pc = "count"
    /\ mi <= Len(speaker_list) - 1
    /\ LET current == speaker_list[mi]
           next_spk == speaker_list[mi + 1]
           cell == CountCell(current, next_spk)
       IN  transitions' =
              IF CountsPair(current, next_spk)
              THEN [transitions EXCEPT ![cell[1]][cell[2]] = @ + 1]
              ELSE transitions
    /\ mi' = mi + 1
    /\ UNCHANGED <<speaker_list, speakers, charts, matrix_data, pc>>
    /\ UNCHANGED parseVars
    /\ UNCHANGED mainVars
    /\ UNCHANGED guiVars

\* "Convert to percentage (row-normalized)"
Normalize ==
    /\ pc = "count"
    /\ mi > Len(speaker_list) - 1
    /\ matrix_data' = [i \in DOMAIN speakers |-> MatrixRow(speakers[i])]
    /\ pc' = "viz_done"
    /\ UNCHANGED <<speaker_list, speakers, charts, transitions, mi>>
    /\ UNCHANGED parseVars
    /\ UNCHANGED mainVars
    /\ UNCHANGED guiVars

InitMatrix ==
    /\ lines = <<>>
    /\ idx = 1
    /\ start_parsing = FALSE
    /\ current_speaker = None
    /\ current_text = <<>>
    /\ data = <<>>
    /\ ridx = 1
    /\ MainIdle
    /\ speaker_list \in SpeakerLists
    /\ charts \in ChartChoices
    /\ speakers = <<>>
    /\ transitions = <<>>
    /\ mi = 1
    /\ matrix_data = <<>>
    /\ pc = "viz"
    /\ GuiIdle

NextMatrix == VizStart \/ CountStep \/ Normalize

SpecMatrix == InitMatrix /\ [][NextMatrix]_vars

----------------------------------------------------------------------------
(* Transition matrix: claims C8 - C10 *)

MatrixBuilt == pc = "viz_done" /\ matrix_data # <<>>

\* positions i with speaker a at i and speaker b at i + 1, among the first n pairs
PairPositions(a, b, n) ==
    {i \in 1..n : i + 1 <= Len(speaker_list)
                    /\ speaker_list[i] = a /\ speaker_list[i + 1] = b}

\* a has an outgoing speaker change
HasOutgoing(a) ==
    \E i \in 1..(Len(speaker_list) - 1) :
        speaker_list[i] = a /\ speaker_list[i + 1] # a

\* exact sum of percentages <<n, d>>
RECURSIVE PercentSum(_)
PercentSum(row) ==
    IF row = <<>> THEN <<0, 1>>
    ELSE LET rest == PercentSum(Tail(row))
         IN  <<row[1][1] * rest[2] + rest[1] * row[1][2], row[1][2] * rest[2]>>

PercentIs(q, n) == q[1] = n * q[2]

\* C8: in a built matrix every cell lies in [0, 100], and the row of a speaker
\* sums to 100 when that speaker has an outgoing speaker change in the turn
\* sequence and to 0 otherwise.
C8_RowsNormalized ==
    MatrixBuilt =>
        /\ Len(matrix_data) = Len(speakers)
        /\ \A i \in DOMAIN speakers :
              /\ Len(matrix_data[i]) = Len(speakers)
              /\ \A j \in DOMAIN speakers :
                    /\ matrix_data[i][j][2] > 0
                    /\ 0 <= matrix_data[i][j][1]
                    /\ matrix_data[i][j][1] <= 100 * matrix_data[i][j][2]
              /\ PercentIs(PercentSum(matrix_data[i]),
                           IF HasOutgoing(speakers[i]) THEN 100 ELSE 0)

C8_Witness ==
    /\ MatrixBuilt
    /\ Len(speakers) = 3
    /\ \E i \in DOMAIN speakers : ~HasOutgoing(speakers[i])
    /\ \E i \in DOMAIN speakers :
          /\ HasOutgoing(speakers[i])
          /\ \E j, k \in DOMAIN speakers :
                /\ j # k
                /\ matrix_data[i][j][1] > 0
                /\ matrix_data[i][k][1] > 0
    /\ \E i \in 1..(Len(speaker_list) - 1) : speaker_list[i] = speaker_list[i + 1]

\* C9: the count of (a, b) is the number of adjacent positions with speaker a
\* followed by a different speaker b, during the walk and after it; diagonal
\* cells stay 0 and a row total counts the speaker changes out of a only.
C9_CountsSpeakerChanges ==
    pc \in {"count", "viz_done"} /\ transitions # <<>> =>
        LET walked == IF pc = "count" THEN mi - 1 ELSE Len(speaker_list) - 1
        IN  \A a \in Range(speakers) :
              /\ transitions[a][a] = 0
              /\ \A b \in Range(speakers) \ {a} :
                    transitions[a][b] = Cardinality(PairPositions(a, b, walked))
              /\ RowTotal(a) =
                    Cardinality({i \in 1..walked :
                                    speaker_list[i] = a /\ speaker_list[i + 1] # a})

C9_Witness ==
    /\ MatrixBuilt
    /\ \E a, b \in Range(speakers) : a # b /\ transitions[a][b] >= 2
    /\ \E a \in Range(speakers) : Cardinality(PairPositions(a, a, Len(speaker_list))) >= 2

ScenarioList(a, b) == <<a, a, b, a, b, b>>

\* C10: for the speaker sequence [A, A, B, A, B, B] the builder counts
\* A->B = 2 and B->A = 1, counts neither A->A nor B->B, and the rows of A and
\* of B each sum to 100 percent.
C10_Scenario ==
    \A a, b \in SpeakerNames :
        (a # b /\ speaker_list = ScenarioList(a, b) /\ MatrixBuilt) =>
            /\ speakers = <<a, b>>
            /\ transitions[a][b] = 2
            /\ transitions[b][a] = 1
            /\ transitions[a][a] = 0
            /\ transitions[b][b] = 0
            /\ PercentIs(PercentSum(matrix_data[1]), 100)
            /\ PercentIs(PercentSum(matrix_data[2]), 100)
            /\ PercentIs(matrix_data[1][2], 100)
            /\ PercentIs(matrix_data[2][1], 100)

C10_Witness ==
    /\ MatrixBuilt
    /\ speaker_list = ScenarioList(<<"S", "0", "0">>, <<"S", "0", "1">>)
    /\ transitions[<<"S", "0", "0">>][<<"S", "0", "1">>] = 2
    /\ transitions[<<"S", "0", "1">>][<<"S", "0", "0">>] = 1

----------------------------------------------------------------------------
(* The lexical pass: claim C11 *)

\* C11: in the lexical pass no metric failure propagates: the pass keeps one
\* value per turn in each list while it runs and ends without an exception,
\* whichever of the metric computations fails.
C11_LexicalFailureContained ==
    (args.lexical /\ TagIndexes # {}) =>
        /\ raised = ""
        /\ pc = "lexloop" =>
              /\ Len(fks) = tidx - 1
              /\ Len(ttrs) = tidx - 1
              /\ Len(mtlds) = tidx - 1

----------------------------------------------------------------------------
(* parse_transcript on annotated text *)

MaxTokens == 3

\* the concatenations of at most n pieces of tokens
RECURSIVE Concats(_, _)
Concats(tokens, n) ==
    IF n = 0 THEN {<<>>}
    ELSE Concats(tokens, n - 1)
           \cup {t \o rest : t \in tokens, rest \in Concats(tokens, n - 1)}

\* pieces of text around pause markers
PauseTokens ==
    { <<"(", ".", ")">>, <<"(", ".", ".", ")">>, <<"(", ".", ".", ".", ")">>,
      <<"(", ".", ".", ".", ".", ")">>, <<".">>, <<" ">>, <<"a">> }

\* pieces of text around overlap delimiters
OverlapTokens == { <<"/">>, <<"/", "/">>, <<"a">>, <<" ">> }

\* pieces of text around filler words
FillerTokens ==
    { <<"U", "m">>, <<"l", "i", "k", "e">>, <<"h", "m", "m">>,
      <<"y", "e", "a", "h">>, <<"u", "n">>, <<" ">>, <<",">>, <<"/", "/">> }

\* lines of transcripts whose turns run over several lines
WordLines ==
    { <<"S", "0", "0", ":", " ", "a", " ", " ", "b">>,
      <<"S", "0", "1", ":">>,
      <<"c", "\t", "d", " ">>,
      <<"e">>,
      <<>>,
      <<" ", "\t">> }

ScenarioFile ==
    << <<"S", "0", "0", ":", " ", "H", "e", "l", "l", "o", " ",
         "t", "h", "e", "r", "e", ".">>,
       <<"(", ".", ".", ")">>,
       <<"S", "0", "1", ":", " ", "U", "h", ",", " ", "y", "e", "a", "h", " ",
         "/", "/", "I", " ", "t", "h", "i", "n", "k", "/", "/", " ",
         "s", "o", ".">> >>

\* a one-turn transcript with the given text
OneTurn(text) == << <<"S", "0", "0", ":", " ">> \o text >>

TextFiles ==
    {OneTurn(t) : t \in Concats(PauseTokens, MaxTokens)}
      \cup {OneTurn(t) : t \in Concats(OverlapTokens, MaxTokens)}
      \cup {OneTurn(t) : t \in Concats(FillerTokens, MaxTokens)}
      \cup UNION { [1..n -> WordLines] : n \in 0..MaxTokens }
      \cup {ScenarioFile}

InitText ==
    /\ lines \in {ReadLines(c) : c \in TextFiles}
    /\ ParseEntry
    /\ MainIdle
    /\ VizIdle
    /\ GuiIdle

SpecText == InitText /\ [][Next]_vars

----------------------------------------------------------------------------
(* Feature extraction: claims C12 - C16 *)

\* positions at which sub occurs in s
Occurrences(s, sub) ==
    {p \in 1..(Len(s) - Len(sub) + 1) :
        \A i \in 1..Len(sub) : s[p + i - 1] = sub[i]}

\* C12: a turn's short pause count is the number of occurrences of "(.)" in
\* its text and its long pause count the number of occurrences of "(..)" plus
\* the number of occurrences of "(...)"; nothing else is counted.
C12_PauseCounts ==
    pc = "returned" =>
        \A k \in DOMAIN data :
            /\ data[k]["Short Pauses"] =
                  Cardinality(Occurrences(data[k]["Text"], <<"(", ".", ")">>))
            /\ data[k]["Long Pauses"] =
                  Cardinality(Occurrences(data[k]["Text"], <<"(", ".", ".", ")">>))
                    + Cardinality(Occurrences(data[k]["Text"],
                                              <<"(", ".", ".", ".", ")">>))

C12_Witness ==
    /\ pc = "returned"
    /\ \E k \in DOMAIN data :
          /\ Cardinality(Occurrences(data[k]["Text"], <<"(", ".", ".", ")">>)) = 1
          /\ Cardinality(Occurrences(data[k]["Text"], <<"(", ".", ".", ".", ")">>)) = 1
          /\ Cardinality(Occurrences(data[k]["Text"], <<"(", ".", ")">>)) = 1
          /\ data[k]["Long Pauses"] = 2
          /\ data[k]["Short Pauses"] = 1

\* C13: a turn is flagged as containing an overlap exactly when its text holds
\* two occurrences of "//" that do not overlap each other.
C13_OverlapFlag ==
    pc = "returned" =>
        \A k \in DOMAIN data :
            data[k]["Contains Overlap?"] =
                IF \E p, q \in Occurrences(data[k]["Text"], <<"/", "/">>) : q >= p + 2
                THEN "Yes" ELSE "No"

C13_Witness ==
    /\ pc = "returned"
    /\ \E k \in DOMAIN data :
          /\ data[k]["Contains Overlap?"] = "Yes"
          /\ data[k]["Text"] = <<"/", "/", "/", "/">>

\* c and d are the same letter in either case, or the same character
SameLetter(c, d) ==
    \/ c = d
    \/ \E i \in DOMAIN UpperLetters :
          {c, d} = {UpperLetters[i], LowerLetters[i]}

\* pairs <<p, w>>: filler word w stands at p as a whole word, in any case
WholeFillers(s) ==
    {pw \in (DOMAIN s) \X {<<"u", "h">>, <<"u", "m">>, <<"h", "m", "m">>,
                           <<"y", "e", "a", "h">>, <<"l", "i", "k", "e">>} :
        LET p == pw[1]
            w == pw[2]
        IN  /\ p + Len(w) - 1 <= Len(s)
            /\ \A i \in 1..Len(w) : SameLetter(s[p + i - 1], w[i])
            /\ (p = 1 \/ s[p - 1] \notin WordChars)
            /\ (p + Len(w) > Len(s) \/ s[p + Len(w)] \notin WordChars)}

\* C14: the disfluency count of a turn is the number of whole-word,
\* case-insensitive occurrences of uh, um, hmm, yeah and like in its text.
C14_DisfluencyCount ==
    pc = "returned" =>
        \A k \in DOMAIN data :
            data[k]["Disfluencies (uh/um/yeah...)"] =
                Cardinality(WholeFillers(data[k]["Text"]))

C14_Witness ==
    /\ pc = "returned"
    /\ \E k \in DOMAIN data :
          /\ data[k]["Text"] = <<"/", "/", "l", "i", "k", "e", ",">>
          /\ data[k]["Disfluencies (uh/um/yeah...)"] = 1

\* the number of whitespace-delimited tokens of s, read left to right
RECURSIVE TokenCount(_, _)
TokenCount(s, inside) ==
    IF s = <<>> THEN 0
    ELSE IF Head(s) \in {" ", "\t", "\n"} THEN TokenCount(Tail(s), FALSE)
    ELSE (IF inside THEN 0 ELSE 1) + TokenCount(Tail(s), TRUE)

RECURSIVE SumOver(_, _)
SumOver(S, f) ==
    IF S = {} THEN 0
    ELSE LET x == CHOOSE y \in S : TRUE IN f[x] + SumOver(S \ {x}, f)

\* the tokens of the remainder of turn-start line i and of its continuation lines
PieceTokens(i) ==
    TokenCount(Remainder(i), FALSE)
      + SumOver(ContIndexes(i), [j \in ContIndexes(i) |-> TokenCount(Trimmed(j), FALSE)])

\* C15: the word count of every emitted turn is the number of
\* whitespace-delimited tokens of its text, and the sum of the token counts of
\* the pieces joined into it.
C15_WordCount ==
    pc = "returned" =>
        \A k \in DOMAIN data :
            /\ data[k]["Word Count"] = TokenCount(data[k]["Text"], FALSE)
            /\ k <= NumTags
            /\ data[k]["Word Count"] = PieceTokens(NthTagIndex(k))

C15_Witness ==
    /\ pc = "returned"
    /\ \E k \in DOMAIN data :
          /\ data[k]["Word Count"] = 5
          /\ Cardinality(ContIndexes(NthTagIndex(k))) = 2

\* C16: the three-line scenario gives two turns, S00 then S01, and turn 2 has
\* disfluency count 2, the overlap flag set and long pause count 0.
C16_Scenario ==
    (pc = "returned" /\ lines = ReadLines(ScenarioFile)) =>
        /\ Len(data) = 2
        /\ data[1]["Speaker"] = <<"S", "0", "0">>
        /\ data[2]["Speaker"] = <<"S", "0", "1">>
        /\ data[2]["Disfluencies (uh/um/yeah...)"] = 2
        /\ data[2]["Contains Overlap?"] = "Yes"
        /\ data[2]["Long Pauses"] = 0

C16_Witness ==
    /\ pc = "returned"
    /\ lines = ReadLines(ScenarioFile)
    /\ Len(data) = 2
    /\ data[2]["Disfluencies (uh/um/yeah...)"] = 2
    /\ data[1]["Long Pauses"] = 1

----------------------------------------------------------------------------
(* Blank lines: claim C17 *)

\* the lines of ls that are not blank once trimmed, in order
NonBlank(ls) == SelectSeq(ls, LAMBDA l : Strip(l) # <<>>)

\* positions of the turn-start lines of q
TagsIn(q) == {i \in DOMAIN q : IsTurnStartLine(Strip(q[i]))}

NthTagIn(q, k) ==
    CHOOSE i \in TagsIn(q) : Cardinality({j \in TagsIn(q) : j <= i}) = k

\* position of the first turn-start line of q after line i (Len(q) + 1: none)
StopOf(q, i) ==
    LET later == {j \in TagsIn(q) : j > i}
    IN  IF later = {} THEN Len(q) + 1
        ELSE CHOOSE j \in later : \A r \in later : j <= r

\* acc joined, one space each, with the trimmed lines j .. stop-1 of q
RECURSIVE JoinIn(_, _, _, _)
JoinIn(q, acc, j, stop) ==
    IF j >= stop THEN acc
    ELSE JoinIn(q, acc \o <<" ">> \o Strip(q[j]), j + 1, stop)

\* the turn that turn-start line i of q opens
TurnIn(q, i) ==
    LET l == Strip(q[i])
    IN  [Speaker |-> SubSeq(l, 1, 3),
         Text |-> Strip(JoinIn(q, SubSeq(l, 5, Len(l)), i + 1, StopOf(q, i)))]

\* the turns of a transcript q that has no blank line
TurnsOf(q) == [k \in 1..Cardinality(TagsIn(q)) |-> TurnIn(q, NthTagIn(q, k))]

\* speaker and text of the emitted turns
Emitted == [k \in DOMAIN data |-> [Speaker |-> data[k]["Speaker"],
                                   Text |-> data[k]["Text"]]]

\* C17: blank and whitespace-only lines are skipped. The emitted turns, and
\* while the loop runs the emitted turns and the open one, are determined by
\* the non-blank lines read so far alone, so that inserting or removing blank
\* lines changes neither the number of turns nor a speaker or a text, and a
\* blank line never closes the open turn.
C17_BlankLinesSkipped ==
    LET seen == NonBlank(SubSeq(lines, 1, idx - 1))
        n == Cardinality(TagsIn(seen))
        T == TurnsOf(seen)
    IN  /\ pc = "parse" =>
              IF n = 0
              THEN data = <<>> /\ current_speaker = None
              ELSE /\ Len(data) = n - 1
                   /\ \A k \in 1..(n - 1) : Emitted[k] = T[k]
                   /\ current_speaker = T[n].Speaker
                   /\ Strip(current_text) = T[n].Text
        /\ LoopDone =>
              /\ Len(data) = Cardinality(TagsIn(NonBlank(lines)))
              /\ \A k \in DOMAIN data : Emitted[k] = TurnsOf(NonBlank(lines))[k]

\* a line of whitespace stands between a turn-start line and its
\* continuation line, which still joins the turn
C17_Witness ==
    /\ pc = "returned"
    /\ Len(data) = 1
    /\ \E i \in TagIndexes, j, k \in DOMAIN lines :
          /\ i < j /\ j < k
          /\ lines[j] = <<" ", "\t", "\n">>
          /\ ContIndexes(i) = {k}
          /\ Remainder(i) # <<>>
          /\ data[1]["Text"] = Strip(Remainder(i)) \o <<" ">> \o Trimmed(k)

----------------------------------------------------------------------------
(* The results summary: claims C18 - C20 *)

\* positions of the turns of speaker s in the turn sequence
TurnsBy(s) == {k \in DOMAIN data : data[k]["Speaker"] = s}

\* the sum of column c over the turns at the positions S
Total(S, c) == SumOver(S, [k \in S |-> data[k][c]])

\* the number of turns at the positions S that have an overlap
Overlapping(S) == Cardinality({k \in S : data[k]["Contains Overlap?"] = "Yes"})

\* the seven totals of one summary entry, in a fixed order
TotalsOf(e) ==
    <<e.TotalTurns, e.TotalWords, e.TotalOverlaps, e.TotalShortPauses,
      e.TotalLongPauses, e.TotalDisfluencies>>

\* the same totals counted over the turns at the positions S
TotalsOver(S) ==
    <<Cardinality(S), Total(S, "Word Count"), Overlapping(S),
      Total(S, "Short Pauses"), Total(S, "Long Pauses"),
      Total(S, "Disfluencies (uh/um/yeah...)")>>

\* summary sm has one entry for each speaker of the turn sequence, the totals
\* of an entry are those of the speaker's turns, and the totals added up over
\* the entries are those of the whole turn sequence
SummaryAgrees(sm) ==
    /\ {sm[i].Speaker : i \in DOMAIN sm} = {data[k]["Speaker"] : k \in DOMAIN data}
    /\ \A i, j \in DOMAIN sm : sm[i].Speaker = sm[j].Speaker => i = j
    /\ \A i \in DOMAIN sm : TotalsOf(sm[i]) = TotalsOver(TurnsBy(sm[i].Speaker))
    /\ \A c \in 1..6 :
          SumOver(DOMAIN sm, [i \in DOMAIN sm |-> TotalsOf(sm[i])[c]])
            = TotalsOver(DOMAIN data)[c]

\* C18: once the results sheet is built, and once the LaTeX tables are
\* written, every speaker of the turn sequence has one summary entry whose
\* turn, word, overlap, pause and disfluency totals are the count and the sums
\* over that speaker's turns, and each total summed over the speakers equals
\* the total over all turns.
C18_SummaryTotals ==
    /\ pc \in {"latex", "done"} => SummaryAgrees(stats)
    /\ (pc = "done" /\ args.latex) => SummaryAgrees(tex)

C18_Witness ==
    /\ pc = "done"
    /\ args.latex
    /\ Len(stats) = 2
    /\ Len(tex) = 2
    /\ stats[1].TotalTurns = 1
    /\ stats[1].TotalWords = 1
    /\ stats[2].TotalOverlaps = 1
    /\ stats[2].TotalShortPauses = 1
    /\ stats[2].TotalDisfluencies = 1
    /\ tex[2].TotalWords = 3

----------------------------------------------------------------------------
(* The per-speaker reductions of apply_excel_styling on their own *)

MaxRows == 2

\* texts of the turns of the frames the reductions are applied to
AggregateTexts ==
    { <<>>,
      <<"a", " ", "b">>,
      <<"u", "h", " ", "(", ".", ")", " ", "/", "/", "b", "/", "/", " ",
        "(", ".", ".", ")">> }

\* rows as parse_transcript returns them
AggregateRows ==
    { Features([Speaker |-> s, Text |-> t]) :
         s \in {<<"S", "0", "0">>, <<"S", "0", "1">>}, t \in AggregateTexts }

\* the frame of the rows, with the lexical columns when lexical is set; a
\* lexical metric is written as the position of its turn
AggregateFrame(rows, lexical) ==
    IF lexical
    THEN SetColumn(SetColumn(SetColumn(DataFrame(rows),
                                       "TTR", [i \in DOMAIN rows |-> i]),
                             "MTLD", [i \in DOMAIN rows |-> i]),
                   "Flesch-Kincaid", [i \in DOMAIN rows |-> i])
    ELSE DataFrame(rows)

InitAggregate ==
    /\ df \in { AggregateFrame(rows, lexical) :
                  rows \in UNION { [1..n -> AggregateRows] : n \in 1..MaxRows },
                  lexical \in BOOLEAN }
    /\ pc = "styling"
    /\ lines = <<>>
    /\ idx = 1
    /\ start_parsing = FALSE
    /\ current_speaker = None
    /\ current_text = <<>>
    /\ data = <<>>
    /\ ridx = 1
    /\ args = [lexical |-> HasColumn(df, "Flesch-Kincaid"), questions |-> FALSE,
               summary |-> TRUE, latex |-> FALSE]
    /\ fks = <<>>
    /\ ttrs = <<>>
    /\ mtlds = <<>>
    /\ tidx = 1
    /\ workbook = <<>>
    /\ stats = <<>>
    /\ tex = <<>>
    /\ raised = ""
    /\ VizIdle
    /\ GuiIdle

\* the body of "for s in speakers" for one speaker name, which may have no
\* row in the frame
StatsFor(s) ==
    /\ pc = "styling"
    /\ stats' = <<SpeakerStats(df, s)>>
    /\ pc' = "done"
    /\ UNCHANGED parseVars
    /\ UNCHANGED vizVars
    /\ UNCHANGED guiVars
    /\ UNCHANGED <<args, df, fks, ttrs, mtlds, tidx, workbook, tex, raised>>

NextAggregate == \E s \in SpeakerNames : StatsFor(s)

SpecAggregate == InitAggregate /\ [][NextAggregate]_vars

\* a mean that is the number 0
IsZeroMean(q) == q[1] = 0 /\ q[2] > 0

\* C19: the reductions over a per-speaker subset without rows give count 0,
\* sums 0 and means 0 (average words per turn and, when the frame has the
\* lexical columns, the three lexical means), and no exception is raised.
C19_EmptySubsetIsZero ==
    (/\ pc = "done"
     /\ Len(stats) = 1
     /\ \A k \in DOMAIN df.rows : df.rows[k]["Speaker"] # stats[1].Speaker) =>
        /\ raised = ""
        /\ TotalsOf(stats[1]) = <<0, 0, 0, 0, 0, 0>>
        /\ IsZeroMean(stats[1].AvgWords)
        /\ HasColumn(df, "Flesch-Kincaid") =>
              /\ IsZeroMean(stats[1].TTR)
              /\ IsZeroMean(stats[1].MTLD)
              /\ IsZeroMean(stats[1].FleschKincaid)

C19_Witness ==
    /\ pc = "done"
    /\ Len(df.rows) = 2
    /\ HasColumn(df, "Flesch-Kincaid")
    /\ \A k \in DOMAIN df.rows :
          df.rows[k]["Speaker"] = <<"S", "0", "0">> /\ df.rows[k]["Word Count"] > 0
    /\ stats[1].Speaker = <<"S", "0", "1">>
    /\ stats[1].TotalTurns = 0
    /\ stats[1].TTR = <<0, 1>>

\* C20: a run with --no-summary ends with a workbook that has no
\* "Results Summary" sheet; the sheet exists only when the summary option is on.
C20_NoSummarySheet ==
    pc = "done" => ("Results Summary" \in Range(workbook) <=> args.summary)

----------------------------------------------------------------------------
(* The lexical lists: claim C21 *)

\* list holds one value for each turn the pass has handled, and its i-th
\* value is the metric of turn i or the fallback 0
AlignedWithTurns(list) ==
    /\ Len(list) = tidx - 1
    /\ \A i \in DOMAIN list : list[i] \in {0, i}

\* C21: during and after the lexical pass each of the TTR, MTLD and
\* Flesch-Kincaid lists holds one value per handled turn, the i-th value
\* belonging to the i-th turn, whichever metric computations succeed or fail.
C21_LexicalListsAligned ==
    /\ AlignedWithTurns(ttrs)
    /\ AlignedWithTurns(mtlds)
    /\ AlignedWithTurns(fks)

----------------------------------------------------------------------------
(* parse_transcript on transcripts with pause-marker lines: claim C22 *)

MaxPauseLines == 4

\* lines of transcripts with pause markers on lines of their own
PauseLineChoices ==
    { <<"S", "0", "0", ":", " ", "a">>,
      <<"S", "0", "1", ":">>,
      <<"(", ".", ")">>,
      <<"(", ".", ".", ")">>,
      <<"(", ".", ".", ".", ")">>,
      <<"b", " ", "c">> }

PauseFiles == UNION { [1..n -> PauseLineChoices] : n \in 0..MaxPauseLines }

InitPause ==
    /\ lines \in {ReadLines(c) : c \in PauseFiles}
    /\ ParseEntry
    /\ MainIdle
    /\ VizIdle
    /\ GuiIdle

SpecPause == InitPause /\ [][Next]_vars

ShortMarker == <<"(", ".", ")">>

LongMarkers == { <<"(", ".", ".", ")">>, <<"(", ".", ".", ".", ")">> }

\* s ends with t
EndsWith(s, t) ==
    Len(s) >= Len(t) /\ SubSeq(s, Len(s) - Len(t) + 1, Len(s)) = t

\* the continuation lines of turn-start line i that are exactly a marker of M
MarkerLines(i, M) == {j \in ContIndexes(i) : Trimmed(j) \in M}

\* C22: a line that is exactly "(.)", "(..)" or "(...)" and is read while a
\* turn is open is appended to the text of that turn, and the returned turn
\* counts it among its pauses and its words; the turn that starts after the
\* marker line does not count it.
C22_PauseLineContinues ==
    /\ (/\ pc = "parse"
        /\ idx > 1
        /\ Trimmed(idx - 1) \in {ShortMarker} \cup LongMarkers
        /\ \E i \in TagIndexes : i < idx - 1) =>
           /\ current_speaker # None
           /\ EndsWith(current_text, <<" ">> \o Trimmed(idx - 1))
    /\ pc = "returned" =>
          \A k \in 1..NumTags :
              LET i == NthTagIndex(k)
                  others == ContIndexes(i) \ MarkerLines(i, {ShortMarker} \cup LongMarkers)
              IN  /\ k \in DOMAIN data
                  /\ (\A j \in others \cup {i} :
                         /\ "(" \notin Range(Trimmed(j))) =>
                        /\ data[k]["Short Pauses"]
                             = Cardinality(MarkerLines(i, {ShortMarker}))
                        /\ data[k]["Long Pauses"]
                             = Cardinality(MarkerLines(i, LongMarkers))
                  /\ data[k]["Word Count"] = PieceTokens(i)

C22_Witness ==
    /\ pc = "returned"
    /\ Len(data) = 2
    /\ Trimmed(2) = <<"(", ".", ".", ".", ")">>
    /\ Trimmed(3) = ShortMarker
    /\ data[1]["Short Pauses"] = 1
    /\ data[1]["Long Pauses"] = 1
    /\ data[1]["Word Count"] = 3
    /\ data[2]["Short Pauses"] = 0
    /\ data[2]["Long Pauses"] = 0
    /\ data[2]["Word Count"] = 0

----------------------------------------------------------------------------
(* PipelineApp: the Rename Speakers screen *)

MaxRenameLines == 3

\* lines of the transcripts opened on the rename screen
RenameLineChoices ==
    { <<"S", "0", "0", ":", " ", "a">>,
      <<"S", "0", "1", ":", " ", "b">>,
      <<"S", "0", "0", ":">>,
      <<"c">> }

RenameFiles == UNION { [1..n -> RenameLineChoices] : n \in 1..MaxRenameLines }

\* what the user types into an entry
NameChoices ==
    { <<"S", "0", "0">>, <<"S", "0", "1">>, <<"S", "0", "2">>,
      <<"A", "l">>, <<" ", "B", "o", " ">>, <<>> }

\* r'\b(S\d{2}):' matches in line at position p
TagMatchAt(line, p) ==
    /\ p + 3 <= Len(line)
    /\ line[p] = "S"
    /\ line[p + 1] \in Digits
    /\ line[p + 2] \in Digits
    /\ line[p + 3] = ":"
    /\ (p = 1 \/ line[p - 1] \notin WordChars)

\* set(re.findall(r'\b(S\d{2}):', content))
FoundTags(file) ==
    UNION { { SubSeq(file[i], p, p + 2) :
                p \in {q \in 1..Len(file[i]) : TagMatchAt(file[i], q)} } :
            i \in DOMAIN file }

DigitValue(c) == CHOOSE v \in 0..9 : <<"0", "1", "2", "3", "4", "5", "6", "7", "8", "9">>[v + 1] = c

TagNumber(tag) == 10 * DigitValue(tag[2]) + DigitValue(tag[3])

\* sorted(...) of tags
RECURSIVE SortedTags(_)
SortedTags(S) ==
    IF S = {} THEN <<>>
    ELSE LET least == CHOOSE t \in S : \A u \in S : TagNumber(t) <= TagNumber(u)
         IN  <<least>> \o SortedTags(S \ {least})

\* str.replace(old, new) on one line: leftmost matches, not overlapping
RECURSIVE ReplaceFrom(_, _, _, _)
ReplaceFrom(s, old, new, p) ==
    IF p > Len(s) THEN <<>>
    ELSE IF OccursAt(s, old, p)
    THEN new \o ReplaceFrom(s, old, new, p + Len(old))
    ELSE <<s[p]>> \o ReplaceFrom(s, old, new, p + 1)

\* content.replace(f"{old_tag}:", f"{new_name}:"); a tag never spans lines
ReplaceTag(file, old_tag, new_name) ==
    [i \in DOMAIN file |->
        ReplaceFrom(file[i], old_tag \o <<":">>, new_name \o <<":">>, 1)]

\* the renaming of one entry applies: "if new_name and new_name != old_tag"
EntryRenames(e) == Strip(e.text) # <<>> /\ Strip(e.text) # e.tag

\* the loop over self.speaker_entries.items(), from entry k on
RECURSIVE ApplyEntries(_, _, _)
ApplyEntries(file, entries, k) ==
    IF k > Len(entries) THEN file
    ELSE ApplyEntries(IF EntryRenames(entries[k])
                      THEN ReplaceTag(file, entries[k].tag, Strip(entries[k].text))
                      ELSE file,
                      entries, k + 1)

\* the entries do_detect_speakers builds: one per tag, filled with the tag
DetectedEntries(file) ==
    LET tags == SortedTags(FoundTags(file))
    IN  [k \in DOMAIN tags |-> [tag |-> tags[k], text |-> tags[k]]]

\* "Detect Speakers": do_detect_speakers
DetectSpeakers ==
    /\ pc = "rename"
    /\ speaker_entries' = DetectedEntries(transcript_file)
    /\ IF FoundTags(transcript_file) = {}
       THEN pc' = "rename" /\ status' = status
       ELSE pc' = "entries" /\ status' = <<"Found speakers">>
    /\ UNCHANGED <<transcript_file, applied>>
    /\ UNCHANGED <<transcribe_btn, excel_btn, pipeline_btn, batch_files, workers,
                   callbacks, launched, history, last_transcript_path,
                   last_excel_path>>
    /\ UNCHANGED parseVars
    /\ UNCHANGED mainVars
    /\ UNCHANGED vizVars

\* the user types name into the k-th entry
EditEntry(k, name) ==
    /\ pc = "entries"
    /\ k \in DOMAIN speaker_entries
    /\ speaker_entries' = [speaker_entries EXCEPT ![k].text = name]
    /\ UNCHANGED <<transcript_file, applied, pc>>
    /\ UNCHANGED appVars
    /\ UNCHANGED parseVars
    /\ UNCHANGED mainVars
    /\ UNCHANGED vizVars

\* "Apply Renaming": do_apply_rename, with the do_detect_speakers call that
\* ends it
ApplyRename ==
    /\ pc = "entries"
    /\ IF \A k \in DOMAIN speaker_entries : ~EntryRenames(speaker_entries[k])
       THEN UNCHANGED <<transcript_file, speaker_entries, applied, status, pc>>
       ELSE /\ transcript_file' = ApplyEntries(transcript_file, speaker_entries, 1)
            /\ applied' = [file |-> transcript_file, entries |-> speaker_entries]
            /\ speaker_entries' = DetectedEntries(transcript_file')
            /\ status' = IF FoundTags(transcript_file') = {}
                         THEN <<"Renamed speakers">>
                         ELSE <<"Found speakers">>
            /\ pc' = "renamed"
    /\ UNCHANGED <<transcribe_btn, excel_btn, pipeline_btn, batch_files, workers,
                   callbacks, launched, history, last_transcript_path,
                   last_excel_path>>
    /\ UNCHANGED parseVars
    /\ UNCHANGED mainVars
    /\ UNCHANGED vizVars

\* parse_transcript opens the renamed file: "lines = f.readlines()"
ParseOpen ==
    /\ pc = "renamed"
    /\ lines' = ReadLines(transcript_file)
    /\ pc' = "parse"
    /\ UNCHANGED <<idx, start_parsing, current_speaker, current_text, data, ridx>>
    /\ UNCHANGED mainVars
    /\ UNCHANGED vizVars
    /\ UNCHANGED guiVars

InitRename ==
    /\ transcript_file \in RenameFiles
    /\ speaker_entries = <<>>
    /\ applied = <<>>
    /\ pc = "rename"
    /\ lines = <<>>
    /\ idx = 1
    /\ start_parsing = FALSE
    /\ current_speaker = None
    /\ current_text = <<>>
    /\ data = <<>>
    /\ ridx = 1
    /\ MainIdle
    /\ VizIdle
    /\ AppIdle

NextRename ==
    \/ DetectSpeakers
    \/ \E k \in 1..2, name \in NameChoices : EditEntry(k, name)
    \/ ApplyRename
    \/ ParseOpen
    \/ ParseLine
    \/ ParseEnd
    \/ ExtractRow
    \/ ParseReturn

SpecRename == InitRename /\ [][NextRename]_vars

----------------------------------------------------------------------------
(* Renaming: claims C23, C24 *)

\* the name entered for tag in entries (the tag itself where nothing applies)
NewNameFor(entries, tag) ==
    IF \E k \in DOMAIN entries : entries[k].tag = tag /\ EntryRenames(entries[k])
    THEN Strip(entries[CHOOSE k \in DOMAIN entries : entries[k].tag = tag].text)
    ELSE tag

\* the turns with every speaker replaced by the name entered for it
RenamedTurns(turns, entries) ==
    [k \in DOMAIN turns |->
        [Speaker |-> NewNameFor(entries, turns[k].Speaker), Text |-> turns[k].Text]]

\* C23: parsing the renamed transcript gives the turns of the transcript as it
\* was before Apply Renaming, in the same order and with the same texts, each
\* speaker replaced by the new name entered for it.
C23_RenameCommutesWithParse ==
    (pc = "returned" /\ applied # <<>>) =>
        LET before == TurnsOf(NonBlank(ReadLines(applied.file)))
        IN  /\ Len(data) = Len(before)
            /\ \A k \in DOMAIN data :
                  Emitted[k] = RenamedTurns(before, applied.entries)[k]

\* the turn-start lines of file whose tag the screen detected
TaggedLines(file) == {i \in DOMAIN file : IsTurnStartLine(Strip(file[i]))}

\* line starts with name and a colon
TaggedWith(line, name) == OccursAt(line, name \o <<":">>, 1)

\* C24: Apply Renaming substitutes all tags at once: a turn-start line that
\* carried an old tag carries, in the written file, the name entered for that
\* same tag, also when that name is another detected tag, so that lines of
\* tags given different names carry different names afterwards.
C24_SimultaneousSubstitution ==
    (pc = "renamed" /\ applied # <<>>) =>
        /\ \A i \in TaggedLines(applied.file) :
              TaggedWith(Strip(transcript_file[i]),
                         NewNameFor(applied.entries, SubSeq(Strip(applied.file[i]), 1, 3)))
        /\ \A i, j \in TaggedLines(applied.file) :
              LET ti == SubSeq(Strip(applied.file[i]), 1, 3)
                  tj == SubSeq(Strip(applied.file[j]), 1, 3)
              IN  NewNameFor(applied.entries, ti) # NewNameFor(applied.entries, tj) =>
                     ~TaggedWith(Strip(transcript_file[i]),
                                 NewNameFor(applied.entries, tj))

----------------------------------------------------------------------------
(* PipelineApp: worker threads, subprocesses and self.after callbacks *)

MaxStarts == 2

MaxBatch == 2

\* batches started
MaxBatchRuns == 1

\* the audio files the user can pick, by base name
AudioFiles == {"a", "b"}

\* a batch selection: different files in the order of selection
BatchSelections ==
    { sel \in UNION { [1..n -> AudioFiles \cup {"c"}] : n \in 1..MaxBatch } :
        \A i, j \in DOMAIN sel : sel[i] = sel[j] => i = j }

\* what starting a subprocess can do: exit with code 0, exit with another
\* code, or not start at all (Popen / subprocess.run raises)
Outcomes == {"ok", "fail", "raise"}

ReturnCode(outcome) == IF outcome = "ok" THEN 0 ELSE 1

\* os.path.join(self.paths["transcripts"], f"{basename}.txt")
TranscriptPath(f) == <<"transcripts", f>>

\* os.path.join(self.paths["exports"], f"{basename}.xlsx")
ExcelPath(f) == <<"exports", f>>

\* run_in_thread(worker): a thread with the locals of its closure
NewWorker(kind, files) ==
    [kind |-> kind, alive |-> TRUE, files |-> files, i |-> 1, completed |-> 0]

\* self.after(0, fn): a callback with its arguments
Callback(fn, by, rc, completed, total) ==
    [fn |-> fn, by |-> by, rc |-> rc, completed |-> completed, total |-> total]

\* a subprocess that was started by worker w and has exited
Process(w, prog, file, rc) == [by |-> w, prog |-> prog, file |-> file, rc |-> rc]

\* a CTkButton in state "disabled" does not call its command
Pressable(btn, command) == btn.state = "normal" /\ btn.command = command

\* show_transcribe: the screen is built anew, with a new Start button
ShowTranscribe ==
    /\ pc = "gui"
    /\ transcribe_btn' = [state |-> "normal", command |-> "do_transcribe"]
    /\ UNCHANGED <<excel_btn, pipeline_btn, batch_files, workers, callbacks,
                   launched, history, last_transcript_path, last_excel_path, status>>
    /\ UNCHANGED <<pc, renameVars>>
    /\ UNCHANGED <<parseVars, mainVars, vizVars>>

\* _on_drop with an .mp3 file: show_transcribe(), then the file and the status
OnDropAudio(f) ==
    /\ pc = "gui"
    /\ transcribe_btn' = [state |-> "normal", command |-> "do_transcribe"]
    /\ status' = <<"Dropped", f>>
    /\ UNCHANGED <<excel_btn, pipeline_btn, batch_files, workers, callbacks,
                   launched, history, last_transcript_path, last_excel_path>>
    /\ UNCHANGED <<pc, renameVars>>
    /\ UNCHANGED <<parseVars, mainVars, vizVars>>

\* do_transcribe with audio file f selected and an output name entered
DoTranscribe(f) ==
    /\ pc = "gui"
    /\ Pressable(transcribe_btn, "do_transcribe")
    /\ Len(workers) < MaxStarts
    /\ transcribe_btn' = [transcribe_btn EXCEPT !.state = "disabled"]
    /\ workers' = Append(workers, NewWorker("transcribe", <<f>>))
    /\ UNCHANGED <<excel_btn, pipeline_btn, batch_files, callbacks,
                   launched, history, last_transcript_path, last_excel_path, status>>
    /\ UNCHANGED <<pc, renameVars>>
    /\ UNCHANGED <<parseVars, mainVars, vizVars>>

\* worker() of do_transcribe: Popen, the output loop, proc.wait(), and the
\* callback; when Popen raises the thread ends with nothing queued
TranscribeWorker(w, outcome) ==
    /\ pc = "gui"
    /\ w \in DOMAIN workers
    /\ workers[w].kind = "transcribe"
    /\ workers[w].alive
    /\ workers' = [workers EXCEPT ![w].alive = FALSE]
    /\ IF outcome = "raise"
       THEN UNCHANGED <<launched, callbacks>>
       ELSE /\ launched' = Append(launched, Process(w, "noScribe", workers[w].files[1],
                                                    ReturnCode(outcome)))
            /\ callbacks' = Append(callbacks,
                   Callback("_transcribe_done", w, ReturnCode(outcome), 0, 0))
    /\ UNCHANGED <<transcribe_btn, excel_btn, pipeline_btn, batch_files,
                   history, last_transcript_path, last_excel_path, status>>
    /\ UNCHANGED <<pc, renameVars>>
    /\ UNCHANGED <<parseVars, mainVars, vizVars>>

\* _transcribe_done(returncode, output_path), run by the main loop
TranscribeDone ==
    /\ pc = "gui"
    /\ callbacks # <<>>
    /\ Head(callbacks).fn = "_transcribe_done"
    /\ callbacks' = Tail(callbacks)
    /\ transcribe_btn' = [transcribe_btn EXCEPT !.state = "normal"]
    /\ LET f == workers[Head(callbacks).by].files[1]
       IN  IF Head(callbacks).rc = 0
           THEN /\ status' = <<"Transcription complete">>
                /\ last_transcript_path' = TranscriptPath(f)
                /\ history' = Append(history, f)
           ELSE /\ status' = <<"Transcription failed">>
                /\ UNCHANGED <<last_transcript_path, history>>
    /\ UNCHANGED <<excel_btn, pipeline_btn, batch_files, workers, launched,
                   last_excel_path>>
    /\ UNCHANGED <<pc, renameVars>>
    /\ UNCHANGED <<parseVars, mainVars, vizVars>>

\* _browse_batch_audio with sel chosen in the file dialog
BrowseBatch(sel) ==
    /\ pc = "gui"
    /\ batch_files' = sel
    /\ status' = <<"Batch queued", Len(sel)>>
    /\ transcribe_btn' = [transcribe_btn EXCEPT !.command = "_do_batch_transcribe"]
    /\ UNCHANGED <<excel_btn, pipeline_btn, workers, callbacks, launched, history,
                   last_transcript_path, last_excel_path>>
    /\ UNCHANGED <<pc, renameVars>>
    /\ UNCHANGED <<parseVars, mainVars, vizVars>>

\* _do_batch_transcribe; without batch files it only warns
DoBatchTranscribe ==
    /\ pc = "gui"
    /\ Pressable(transcribe_btn, "_do_batch_transcribe")
    /\ Len(workers) < MaxStarts
    /\ Len(SelectSeq(workers, LAMBDA t : t.kind = "batch")) < MaxBatchRuns
    /\ IF batch_files = <<>>
       THEN UNCHANGED <<transcribe_btn, workers>>
       ELSE /\ transcribe_btn' = [transcribe_btn EXCEPT !.state = "disabled"]
            /\ workers' = Append(workers, NewWorker("batch", batch_files))
    /\ UNCHANGED <<excel_btn, pipeline_btn, batch_files, callbacks,
                   launched, history, last_transcript_path, last_excel_path, status>>
    /\ UNCHANGED <<pc, renameVars>>
    /\ UNCHANGED <<parseVars, mainVars, vizVars>>

\* a loop body that gives up the remaining files after a failed one
BatchStepStopping(w, outcome) ==
    LET f == workers[w].files[workers[w].i]
    IN  /\ launched' = Append(launched, Process(w, "noScribe", f, ReturnCode(outcome)))
        /\ IF outcome = "ok"
           THEN /\ workers' = [workers EXCEPT ![w].i = @ + 1, ![w].completed = @ + 1]
                /\ history' = Append(history, f)
           ELSE /\ workers' = [workers EXCEPT ![w].i = Len(workers[w].files) + 1]
                /\ history' = history

\* the body of "for i, audio_file in enumerate(files)" when Popen starts
BatchStep(w, outcome) ==
    LET f == workers[w].files[workers[w].i]
    IN  /\ launched' = Append(launched, Process(w, "noScribe", f, ReturnCode(outcome)))
        /\ IF outcome = "ok"
           THEN /\ workers' = [workers EXCEPT ![w].i = @ + 1, ![w].completed = @ + 1]
                /\ history' = Append(history, f)
           ELSE /\ workers' = [workers EXCEPT ![w].i = @ + 1]
                /\ history' = history

\* worker() of _do_batch_transcribe, one file; when Popen raises the thread
\* ends with the remaining files untouched and nothing queued
BatchWorkerStep(w, outcome) ==
    /\ pc = "gui"
    /\ w \in DOMAIN workers
    /\ workers[w].kind = "batch"
    /\ workers[w].alive
    /\ workers[w].i <= Len(workers[w].files)
    /\ IF outcome = "raise"
       THEN /\ workers' = [workers EXCEPT ![w].alive = FALSE]
            /\ UNCHANGED <<launched, history>>
       ELSE BatchStep(w, outcome)
    /\ UNCHANGED <<transcribe_btn, excel_btn, pipeline_btn, batch_files, callbacks,
                   last_transcript_path, last_excel_path, status>>
    /\ UNCHANGED <<pc, renameVars>>
    /\ UNCHANGED <<parseVars, mainVars, vizVars>>

\* the end of worker(): self.after(0, lambda: self._batch_done(completed, len(files)))
BatchWorkerEnd(w) ==
    /\ pc = "gui"
    /\ w \in DOMAIN workers
    /\ workers[w].kind = "batch"
    /\ workers[w].alive
    /\ workers[w].i > Len(workers[w].files)
    /\ workers' = [workers EXCEPT ![w].alive = FALSE]
    /\ callbacks' = Append(callbacks,
           Callback("_batch_done", w, 0, workers[w].completed, Len(workers[w].files)))
    /\ UNCHANGED <<transcribe_btn, excel_btn, pipeline_btn, batch_files, launched,
                   history, last_transcript_path, last_excel_path, status>>
    /\ UNCHANGED <<pc, renameVars>>
    /\ UNCHANGED <<parseVars, mainVars, vizVars>>

\* _batch_done(completed, total), run by the main loop
BatchDone ==
    /\ pc = "gui"
    /\ callbacks # <<>>
    /\ Head(callbacks).fn = "_batch_done"
    /\ callbacks' = Tail(callbacks)
    /\ transcribe_btn' = [state |-> "normal", command |-> "do_transcribe"]
    /\ status' = <<"Batch complete", Head(callbacks).completed, Head(callbacks).total>>
    /\ last_transcript_path' = IF Head(callbacks).completed > 0
                               THEN None
                               ELSE last_transcript_path
    /\ batch_files' = <<>>
    /\ UNCHANGED <<excel_btn, pipeline_btn, workers, launched, history, last_excel_path>>
    /\ UNCHANGED <<pc, renameVars>>
    /\ UNCHANGED <<parseVars, mainVars, vizVars>>

\* do_generate_excel with transcript file f selected
DoGenerateExcel(f) ==
    /\ pc = "gui"
    /\ excel_btn = "normal"
    /\ Len(workers) < MaxStarts
    /\ excel_btn' = "disabled"
    /\ status' = <<"Building Excel database">>
    /\ workers' = Append(workers, NewWorker("excel", <<f>>))
    /\ UNCHANGED <<transcribe_btn, pipeline_btn, batch_files, callbacks, launched,
                   history, last_transcript_path, last_excel_path>>
    /\ UNCHANGED <<pc, renameVars>>
    /\ UNCHANGED <<parseVars, mainVars, vizVars>>

\* worker() of do_generate_excel: subprocess.run and the callback; when
\* subprocess.run raises the thread ends with nothing queued
ExcelWorker(w, outcome) ==
    /\ pc = "gui"
    /\ w \in DOMAIN workers
    /\ workers[w].kind = "excel"
    /\ workers[w].alive
    /\ workers' = [workers EXCEPT ![w].alive = FALSE]
    /\ IF outcome = "raise"
       THEN UNCHANGED <<launched, callbacks>>
       ELSE /\ launched' = Append(launched, Process(w, "parse_to_excel",
                                                    workers[w].files[1],
                                                    ReturnCode(outcome)))
            /\ callbacks' = Append(callbacks,
                   Callback("_excel_done", w, ReturnCode(outcome), 0, 0))
    /\ UNCHANGED <<transcribe_btn, excel_btn, pipeline_btn, batch_files,
                   history, last_transcript_path, last_excel_path, status>>
    /\ UNCHANGED <<pc, renameVars>>
    /\ UNCHANGED <<parseVars, mainVars, vizVars>>

\* _excel_done(result, output_path), run by the main loop
ExcelDone ==
    /\ pc = "gui"
    /\ callbacks # <<>>
    /\ Head(callbacks).fn = "_excel_done"
    /\ callbacks' = Tail(callbacks)
    /\ excel_btn' = "normal"
    /\ IF Head(callbacks).rc = 0
       THEN /\ status' = <<"Excel database generated">>
            /\ last_excel_path' = ExcelPath(workers[Head(callbacks).by].files[1])
       ELSE /\ status' = <<"Excel generation failed">>
            /\ UNCHANGED last_excel_path
    /\ UNCHANGED <<transcribe_btn, pipeline_btn, batch_files, workers, launched,
                   history, last_transcript_path>>
    /\ UNCHANGED <<pc, renameVars>>
    /\ UNCHANGED <<parseVars, mainVars, vizVars>>

\* the application with no worker started; the parser and the analysis idle
InitApp ==
    /\ pc = "gui"
    /\ lines = <<>>
    /\ idx = 1
    /\ start_parsing = FALSE
    /\ current_speaker = None
    /\ current_text = <<>>
    /\ data = <<>>
    /\ ridx = 1
    /\ MainIdle
    /\ VizIdle
    /\ GuiIdle

\* the Transcribe screen
NextTranscribe ==
    \/ ShowTranscribe
    \/ \E f \in AudioFiles : OnDropAudio(f)
    \/ \E f \in AudioFiles : DoTranscribe(f)
    \/ \E w \in 1..MaxStarts, outcome \in Outcomes : TranscribeWorker(w, outcome)
    \/ TranscribeDone
    \/ \E sel \in {<<"a">>, <<"b", "a">>} : BrowseBatch(sel)
    \/ DoBatchTranscribe
    \/ \E w \in 1..MaxStarts, outcome \in Outcomes : BatchWorkerStep(w, outcome)
    \/ \E w \in 1..MaxStarts : BatchWorkerEnd(w)
    \/ BatchDone

SpecTranscribe == InitApp /\ [][NextTranscribe]_vars

\* batch transcription on the Transcribe screen
NextBatch ==
    \/ \E sel \in BatchSelections : BrowseBatch(sel)
    \/ DoBatchTranscribe
    \/ \E w \in 1..MaxStarts, outcome \in Outcomes : BatchWorkerStep(w, outcome)
    \/ \E w \in 1..MaxStarts : BatchWorkerEnd(w)
    \/ BatchDone

SpecBatch == InitApp /\ [][NextBatch]_vars

----------------------------------------------------------------------------
(* PipelineApp: the Full Pipeline screen *)

\* the subprocesses of the phases, in the order of worker()
Phases(source) ==
    IF source = "youtube"
    THEN <<"download_audio", "noScribe", "parse_to_excel", "visualize_data">>
    ELSE <<"noScribe", "parse_to_excel", "visualize_data">>

\* number of the phase as the status bar names it
PhaseNumber(prog) ==
    CASE prog = "download_audio" -> 1
      [] prog = "noScribe" -> 2
      [] prog = "parse_to_excel" -> 3
      [] prog = "visualize_data" -> 4

\* a run that goes on with the next phase whatever the exit code was
PhaseStopsNever(outcome) == FALSE

\* "if result.returncode != 0: ... return"
PhaseStops(outcome) == outcome = "fail"

\* do_full_pipeline with the source chosen and its URL or file entered; the
\* audio file of the run is "a"
DoFullPipeline(source) ==
    /\ pc = "gui"
    /\ pipeline_btn = "normal"
    /\ Len(workers) < MaxStarts
    /\ pipeline_btn' = "disabled"
    /\ workers' = Append(workers, NewWorker("pipeline", <<source>>))
    /\ UNCHANGED <<transcribe_btn, excel_btn, batch_files, callbacks, launched,
                   history, last_transcript_path, last_excel_path, status>>
    /\ UNCHANGED <<pc, renameVars>>
    /\ UNCHANGED <<parseVars, mainVars, vizVars>>

\* worker() of do_full_pipeline, one phase: the status callback, then
\* subprocess.run. outcome "nofile" is a download that exits with code 0 and
\* leaves no .mp3 file; "raise" is caught by "except Exception as e"
PipelineWorkerStep(w, outcome) ==
    /\ pc = "gui"
    /\ w \in DOMAIN workers
    /\ workers[w].kind = "pipeline"
    /\ workers[w].alive
    /\ LET phases == Phases(workers[w].files[1])
           prog == phases[workers[w].i]
           announced == Append(callbacks,
                               Callback("set_status", w, PhaseNumber(prog), 0, 0))
           last == workers[w].i = Len(phases)
       IN  /\ outcome = "nofile" => prog = "download_audio"
           /\ launched' = IF outcome = "raise" THEN launched
                          ELSE Append(launched,
                                      Process(w, prog, "a", ReturnCode(outcome)))
           /\ IF outcome = "raise"
              THEN /\ callbacks' = Append(announced,
                                          Callback("unexpected_error", w, 0, 0, 0))
                   /\ workers' = [workers EXCEPT ![w].alive = FALSE]
                   /\ UNCHANGED <<last_transcript_path, last_excel_path>>
              ELSE IF PhaseStops(outcome) \/ outcome = "nofile"
              THEN /\ callbacks' = Append(announced,
                                          Callback("_pipeline_error", w,
                                                   PhaseNumber(prog), 0, 0))
                   /\ workers' = [workers EXCEPT ![w].alive = FALSE]
                   /\ UNCHANGED <<last_transcript_path, last_excel_path>>
              ELSE /\ last_transcript_path' = IF prog = "noScribe"
                                              THEN TranscriptPath("a")
                                              ELSE last_transcript_path
                   /\ last_excel_path' = IF prog = "parse_to_excel"
                                         THEN ExcelPath("a")
                                         ELSE last_excel_path
                   /\ IF last
                      THEN /\ callbacks' = announced
                                  \o <<Callback("pipeline_complete", w, 0, 0, 0),
                                       Callback("pipeline_btn_normal", w, 0, 0, 0)>>
                           /\ workers' = [workers EXCEPT ![w].alive = FALSE]
                      ELSE /\ callbacks' = announced
                           /\ workers' = [workers EXCEPT ![w].i = @ + 1]
    /\ UNCHANGED <<transcribe_btn, excel_btn, pipeline_btn, batch_files, history, status>>
    /\ UNCHANGED <<pc, renameVars>>
    /\ UNCHANGED <<parseVars, mainVars, vizVars>>

\* lambda: self.set_status("Phase n: ..."), run by the main loop
PhaseStatus ==
    /\ pc = "gui"
    /\ callbacks # <<>>
    /\ Head(callbacks).fn = "set_status"
    /\ callbacks' = Tail(callbacks)
    /\ status' = <<"Phase", Head(callbacks).rc>>
    /\ UNCHANGED <<transcribe_btn, excel_btn, pipeline_btn, batch_files, workers,
                   launched, history, last_transcript_path, last_excel_path>>
    /\ UNCHANGED <<pc, renameVars>>
    /\ UNCHANGED <<parseVars, mainVars, vizVars>>

\* _pipeline_error(phase, error_msg), run by the main loop
PipelineError ==
    /\ pc = "gui"
    /\ callbacks # <<>>
    /\ Head(callbacks).fn = "_pipeline_error"
    /\ callbacks' = Tail(callbacks)
    /\ status' = <<"Pipeline stopped", Head(callbacks).rc>>
    /\ pipeline_btn' = "normal"
    /\ UNCHANGED <<transcribe_btn, excel_btn, batch_files, workers,
                   launched, history, last_transcript_path, last_excel_path>>
    /\ UNCHANGED <<pc, renameVars>>
    /\ UNCHANGED <<parseVars, mainVars, vizVars>>

\* lambda: self._pipeline_error("Unexpected error", str(e)), run by the main
\* loop. The lambda reads e of the except clause, which Python unbinds when
\* the worker leaves the clause: when the callback runs first (bound) it
\* reports the error, otherwise it raises NameError and changes nothing.
UnexpectedError(bound) ==
    /\ pc = "gui"
    /\ callbacks # <<>>
    /\ Head(callbacks).fn = "unexpected_error"
    /\ callbacks' = Tail(callbacks)
    /\ IF bound
       THEN /\ status' = <<"Pipeline stopped", 0>>
            /\ pipeline_btn' = "normal"
       ELSE UNCHANGED <<status, pipeline_btn>>
    /\ UNCHANGED <<transcribe_btn, excel_btn, batch_files, workers,
                   launched, history, last_transcript_path, last_excel_path>>
    /\ UNCHANGED <<pc, renameVars>>
    /\ UNCHANGED <<parseVars, mainVars, vizVars>>

\* lambda: self.set_status("Full pipeline complete!"), run by the main loop
PipelineComplete ==
    /\ pc = "gui"
    /\ callbacks # <<>>
    /\ Head(callbacks).fn = "pipeline_complete"
    /\ callbacks' = Tail(callbacks)
    /\ status' = <<"Pipeline Complete">>
    /\ UNCHANGED <<transcribe_btn, excel_btn, pipeline_btn, batch_files, workers,
                   launched, history, last_transcript_path, last_excel_path>>
    /\ UNCHANGED <<pc, renameVars>>
    /\ UNCHANGED <<parseVars, mainVars, vizVars>>

\* lambda: self.pipeline_btn.configure(state="normal", text="Start")
PipelineButton ==
    /\ pc = "gui"
    /\ callbacks # <<>>
    /\ Head(callbacks).fn = "pipeline_btn_normal"
    /\ callbacks' = Tail(callbacks)
    /\ pipeline_btn' = "normal"
    /\ UNCHANGED <<transcribe_btn, excel_btn, batch_files, workers, launched,
                   history, last_transcript_path, last_excel_path, status>>
    /\ UNCHANGED <<pc, renameVars>>
    /\ UNCHANGED <<parseVars, mainVars, vizVars>>

NextPipeline ==
    \/ \E source \in {"existing", "youtube"} : DoFullPipeline(source)
    \/ \E w \in 1..MaxStarts, outcome \in Outcomes \cup {"nofile"} :
          PipelineWorkerStep(w, outcome)
    \/ PhaseStatus
    \/ PipelineError
    \/ \E bound \in BOOLEAN : UnexpectedError(bound)
    \/ PipelineComplete
    \/ PipelineButton

SpecPipeline == InitApp /\ [][NextPipeline]_vars

----------------------------------------------------------------------------
(* The Start buttons of the three screens *)

WorkerSteps ==
    \/ \E w \in 1..MaxStarts, outcome \in Outcomes : TranscribeWorker(w, outcome)
    \/ \E w \in 1..MaxStarts, outcome \in Outcomes : ExcelWorker(w, outcome)
    \/ \E w \in 1..MaxStarts, outcome \in Outcomes \cup {"nofile"} :
          PipelineWorkerStep(w, outcome)

\* the callbacks of self.after(0, ...), run by the main loop in their order
CallbackSteps ==
    \/ TranscribeDone
    \/ ExcelDone
    \/ PhaseStatus
    \/ PipelineError
    \/ \E bound \in BOOLEAN : UnexpectedError(bound)
    \/ PipelineComplete
    \/ PipelineButton

NextStart ==
    \/ \E f \in AudioFiles : DoTranscribe(f)
    \/ \E f \in AudioFiles : DoGenerateExcel(f)
    \/ \E source \in {"existing", "youtube"} : DoFullPipeline(source)
    \/ WorkerSteps
    \/ CallbackSteps

\* a started thread keeps running and the main loop keeps serving its queue
SpecStart ==
    /\ InitApp
    /\ [][NextStart]_vars
    /\ WF_vars(WorkerSteps)
    /\ WF_vars(CallbackSteps)

----------------------------------------------------------------------------
(* The full pipeline: claim C25 *)

\* the subprocesses that worker w has run, in their order
LaunchedBy(w) == SelectSeq(launched, LAMBDA p : p.by = w)

Succeeded(L) == { k \in DOMAIN L : L[k].rc = 0 }

PipelineWorkers == { w \in DOMAIN workers : workers[w].kind = "pipeline" }

\* all phases of the run of w have exited with code 0
AllPhasesSucceeded(w) ==
    /\ Len(LaunchedBy(w)) = Len(Phases(workers[w].files[1]))
    /\ Succeeded(LaunchedBy(w)) = DOMAIN LaunchedBy(w)

Pending(fn, w) == \E c \in DOMAIN callbacks : callbacks[c].fn = fn /\ callbacks[c].by = w

----------------------------------------------------------------------------
(* The Start buttons: claim C26 *)

\* C26: after Start is pressed on the Transcribe, Excel or Full Pipeline
\* screen the Start button is disabled, and on every outcome of the worker
\* (success, a non-zero exit code, an exception when the subprocess is
\* launched) it is eventually enabled again.
C26_StartReenabled ==
    /\ (transcribe_btn.state = "disabled") ~> (transcribe_btn.state = "normal")
    /\ (excel_btn = "disabled") ~> (excel_btn = "normal")
    /\ (pipeline_btn = "disabled") ~> (pipeline_btn = "normal")

----------------------------------------------------------------------------
(* The Transcribe screen: claim C27 *)

TranscriptionWorkers ==
    { w \in DOMAIN workers : workers[w].kind \in {"transcribe", "batch"} /\ workers[w].alive }

\* C27: at most one transcription worker runs at any time, whatever the
\* user does while one is running (pressing Start, choosing a batch,
\* re-opening the Transcribe screen, dropping a file on the window).
C27_OneTranscriptionWorker == Cardinality(TranscriptionWorkers) <= 1

----------------------------------------------------------------------------
(* Batch transcription: claim C28 *)

BatchWorkers == { w \in DOMAIN workers : workers[w].kind = "batch" }

====
